---- MODULE Spec2Model ----
(***************************************************************************)
(* A model of the Monkey interpreter of Artypuppet/monkey: the lexer       *)
(* (src/lexer/lexer.go), the Pratt parser and the tree-walking evaluator   *)
(* (src/parser/parser.go) and the environment (src/object/object.go).      *)
(*                                                                         *)
(* A source text is a sequence of bytes; a byte is written as the string   *)
(* of its character, and the byte 0 as NUL.  Positions are 0-based as in   *)
(* the Go code; the sequences of TLA+ are 1-based, hence the +1 in reads.  *)
(***************************************************************************)
EXTENDS Integers, Sequences, FiniteSets, TLC

VARIABLES
    l,        \* the Lexer object: input, ch, position, readPosition
    tok,      \* the token the last NextToken call of the host returned
    p,        \* the Parser object: curToken, peekToken, errors (its lexer is l)
    program,  \* ast.Program.Statements as built so far by ParseProgram
    pc,       \* where the host is: "lex", "new", "parse", "parsed", "eval", ...
    heap,     \* the Environments allocated; the one the host made is heap[1]
    nref,     \* the number of addresses taken by Booleans, ReturnValues, Functions
    evals,    \* the calls of Eval made so far, in the order they were entered
    result,   \* the variable result of evalProgram; at the end what Eval returned
    next      \* the index of the statement evalProgram evaluates next

vars == <<l, tok, p, program, pc, heap, nref, evals, result, next>>

evalVars == <<heap, nref, evals, result, next>>

\* ------------------------------------------------------------------ evaluation order

\* F applied to the value of v.  Go evaluates an expression once and passes
\* the value on; Bind does the same for the model: v is evaluated once, and
\* F works on its value.
Bind(v, F(_)) == CHOOSE y \in {F(x) : x \in {v}} : TRUE

\* ------------------------------------------------------------------ bytes

NUL == "NUL"

\* the bytes of a source text written as a TLA+ string
Bytes(s) == [i \in 1..Len(s) |-> SubSeq(s, i, i)]

\* string(bytes): the Go string made of a slice of the input
RECURSIVE Str(_)
Str(bs0) == Bind(bs0, LAMBDA bs : IF bs = <<>> THEN "" ELSE Head(bs) \o Str(Tail(bs)))

\* ------------------------------------------------------------------ token

ILLEGAL == "ILLEGAL"
EOF == "EOF"
IDENT == "IDENT"
INT == "INT"
TOKEN_STRING == "STRING"
ASSIGN == "="
PLUS == "+"
MINUS == "-"
BANG == "!"
ASTERISK == "*"
SLASH == "/"
LT == "<"
GT == ">"
EQ == "=="
NOT_EQ == "!="
COMMA == ","
SEMICOLON == ";"
LPAREN == "("
RPAREN == ")"
LBRACE == "{"
RBRACE == "}"
LBRACKET == "["
RBRACKET == "]"
FUNCTION == "FUNCTION"
LET_ == "LET"
TOKEN_TRUE == "TRUE"
TOKEN_FALSE == "FALSE"
IF_ == "IF"
ELSE_ == "ELSE"
RETURN == "RETURN"

Token(type, literal) == [Type |-> type, Literal |-> literal]

\* no token yet: the nil *token.Token a fresh Parser holds
NoToken == Token("none", "")

Idents ==
    [lit \in {"fn", "let", "true", "false", "if", "else", "return"} |->
        CASE lit = "fn" -> FUNCTION
          [] lit = "let" -> LET_
          [] lit = "true" -> TOKEN_TRUE
          [] lit = "false" -> TOKEN_FALSE
          [] lit = "if" -> IF_
          [] lit = "else" -> ELSE_
          [] lit = "return" -> RETURN]

LookupIdent(literal) ==
    IF literal \in DOMAIN Idents THEN Idents[literal] ELSE IDENT

\* ------------------------------------------------------------------ lexer

LowerLetters ==
    {"a", "b", "c", "d", "e", "f", "g", "h", "i", "j", "k", "l", "m",
     "n", "o", "p", "q", "r", "s", "t", "u", "v", "w", "x", "y", "z"}

UpperLetters ==
    {"A", "B", "C", "D", "E", "F", "G", "H", "I", "J", "K", "L", "M",
     "N", "O", "P", "Q", "R", "S", "T", "U", "V", "W", "X", "Y", "Z"}

Digits == {"0", "1", "2", "3", "4", "5", "6", "7", "8", "9"}

isLetter(ch) == ch \in LowerLetters \cup UpperLetters \cup {"_"}

isDigit(ch) == ch \in Digits

isDigitFirst(ch) == isDigit(ch) \/ ch = "-" \/ ch = "+"

\* a readChar that stops counting at the end of the input
readCharToEnd(lx) ==
    [lx EXCEPT
        !.ch = IF lx.readPosition >= Len(lx.input)
               THEN NUL
               ELSE lx.input[lx.readPosition + 1],
        !.position = lx.readPosition,
        !.readPosition = IF lx.readPosition >= Len(lx.input)
                         THEN lx.readPosition
                         ELSE lx.readPosition + 1]

readChar(lx) ==
    [lx EXCEPT
        !.ch = IF lx.readPosition >= Len(lx.input)
               THEN NUL
               ELSE lx.input[lx.readPosition + 1],
        !.position = lx.readPosition,
        !.readPosition = lx.readPosition + 1]

\* lexer.New
NewLexer(input) ==
    readChar([input |-> input, ch |-> NUL, position |-> 0, readPosition |-> 0])

peekChar(lx) ==
    IF lx.readPosition >= Len(lx.input) THEN NUL ELSE lx.input[lx.readPosition + 1]

RECURSIVE skipWhiteSpace(_)
skipWhiteSpace(lx0) ==
    Bind(lx0, LAMBDA lx :
        IF lx.ch = " " \/ lx.ch = "\t" \/ lx.ch = "\n" \/ lx.ch = "\r"
        THEN skipWhiteSpace(readChar(lx))
        ELSE lx)

RECURSIVE readWhileLetter(_)
readWhileLetter(lx0) ==
    Bind(lx0, LAMBDA lx :
        IF isLetter(lx.ch) THEN readWhileLetter(readChar(lx)) ELSE lx)

RECURSIVE readWhileDigitFirst(_)
readWhileDigitFirst(lx0) ==
    Bind(lx0, LAMBDA lx :
        IF isDigitFirst(lx.ch) THEN readWhileDigitFirst(readChar(lx)) ELSE lx)

\* the slice input[from:to] as a string
Slice(input, from, to) == Str(SubSeq(input, from + 1, to))

readIdentifier(lx) ==
    Bind(readWhileLetter(lx), LAMBDA lx2 :
        [l |-> lx2, lit |-> Slice(lx.input, lx.position, lx2.position)])

readDigit(lx) ==
    Bind(readWhileDigitFirst(lx), LAMBDA lx2 :
        [l |-> lx2, lit |-> Slice(lx.input, lx.position, lx2.position)])

newToken(tokenType, ch) == Token(tokenType, ch)

\* the bytes whose case of the switch makes a one-byte token of the same kind
SingleCharCases == {";", "(", ")", ",", "+", "{", "}", "-", "/", "*", "<", ">"}

\* the default case of the switch: returns without the trailing readChar
NextTokenDefault(lx) ==
    IF isLetter(lx.ch)
    THEN Bind(readIdentifier(lx), LAMBDA r :
             [l |-> r.l, tok |-> Token(LookupIdent(r.lit), r.lit)])
    ELSE IF isDigitFirst(lx.ch)
         THEN Bind(readDigit(lx), LAMBDA r : [l |-> r.l, tok |-> Token(INT, r.lit)])
         ELSE [l |-> lx, tok |-> newToken(ILLEGAL, lx.ch)]

\* Lexer.NextToken: the lexer after the call and the token returned
NextToken(lx0) ==
    Bind(skipWhiteSpace(lx0), LAMBDA lx :
        CASE lx.ch = "=" ->
                IF peekChar(lx) = "="
                THEN [l |-> readChar(readChar(lx)), tok |-> Token(EQ, "==")]
                ELSE [l |-> readChar(lx), tok |-> newToken(ASSIGN, lx.ch)]
          [] lx.ch = "!" ->
                IF peekChar(lx) = "="
                THEN [l |-> readChar(readChar(lx)), tok |-> Token(NOT_EQ, "!=")]
                ELSE [l |-> readChar(lx), tok |-> newToken(BANG, lx.ch)]
          [] lx.ch \in SingleCharCases ->
                [l |-> readChar(lx), tok |-> newToken(lx.ch, lx.ch)]
          [] lx.ch = NUL ->
                [l |-> readChar(lx), tok |-> Token(EOF, "")]
          [] OTHER -> NextTokenDefault(lx))

\* ------------------------------------------------------------------ ast

\* the nil interface value of ast.Expression, ast.Statement and ast.Node
NilNode == [kind |-> "nil"]

\* a nil pointer of a concrete node type stored in an interface: the interface
\* value is not nil although the pointer in it is
TypedNil(type) == [kind |-> "nilptr", of |-> type]

Identifier(t, value) == [kind |-> "Identifier", Token |-> t, Value |-> value]
IntegerLiteral(t, value) == [kind |-> "IntegerLiteral", Token |-> t, Value |-> value]
StringLiteral(t, value) == [kind |-> "StringLiteral", Token |-> t, Value |-> value]
BooleanLit(t, value) == [kind |-> "Boolean", Token |-> t, Value |-> value]
PrefixExpression(t, op, right) ==
    [kind |-> "PrefixExpression", Token |-> t, Operator |-> op, Right |-> right]
InfixExpression(t, op, left, right) ==
    [kind |-> "InfixExpression", Token |-> t, Operator |-> op, Left |-> left, Right |-> right]
IfExpression(t, cond, cons, alt) ==
    [kind |-> "IfExpression", Token |-> t, Condition |-> cond,
     Consequence |-> cons, Alternative |-> alt]
BlockStatement(t, stmts) == [kind |-> "BlockStatement", Token |-> t, Statements |-> stmts]
FunctionLiteral(t, params, body) ==
    [kind |-> "FunctionLiteral", Token |-> t, Parameters |-> params, Body |-> body]
CallExpression(t, function, args) ==
    [kind |-> "CallExpression", Token |-> t, Function |-> function, Arguments |-> args]
ArrayLiteral(t, elements) == [kind |-> "ArrayLiteral", Token |-> t, Elements |-> elements]
IndexExpression(t, left, index) ==
    [kind |-> "IndexExpression", Token |-> t, Left |-> left, Index |-> index]
LetStatement(t, name, value) ==
    [kind |-> "LetStatement", Token |-> t, Name |-> name, Value |-> value]
ReturnStatement(t, value) == [kind |-> "ReturnStatement", Token |-> t, ReturnValue |-> value]
ExpressionStatement(t, e) == [kind |-> "ExpressionStatement", Token |-> t, Expression |-> e]

\* ------------------------------------------------------------------ parser

LOWEST == 1
EQUALS == 2
LESSGREATER == 3
SUM == 4
PRODUCT == 5
PREFIX == 6
CALL == 7
INDEX == 8

precedences ==
    [t \in {EQ, NOT_EQ, LT, GT, PLUS, MINUS, SLASH, ASTERISK, LPAREN, LBRACKET} |->
        CASE t \in {EQ, NOT_EQ} -> EQUALS
          [] t \in {LT, GT} -> LESSGREATER
          [] t \in {PLUS, MINUS} -> SUM
          [] t \in {SLASH, ASTERISK} -> PRODUCT
          [] t = LPAREN -> CALL
          [] t = LBRACKET -> INDEX]

\* the token kinds New registers a prefix, an infix parse function for
prefixParseFns ==
    {IDENT, INT, TOKEN_STRING, BANG, MINUS, TOKEN_TRUE, TOKEN_FALSE, LPAREN, IF_,
     FUNCTION, LBRACKET}
infixParseFns == {PLUS, MINUS, SLASH, ASTERISK, EQ, NOT_EQ, LT, GT, LPAREN, LBRACKET}

\* A parser state ps is the Parser with the Lexer it points to:
\* [l, curToken, peekToken, errors, hung].  hung is not a field of the Go
\* struct: it records that a loop of the parser can never end (see
\* parseBlockStatement).  A parse function returns [ps, node].

nextToken(ps) ==
    Bind(NextToken(ps.l), LAMBDA r :
        [ps EXCEPT !.curToken = ps.peekToken, !.peekToken = r.tok, !.l = r.l])

curTokenIs(ps, t) == ps.curToken.Type = t
peekTokenIs(ps, t) == ps.peekToken.Type = t

addError(ps, msg) == [ps EXCEPT !.errors = Append(ps.errors, msg)]

peekError(ps, t) ==
    addError(ps, "expected next token to be " \o t \o ", got "
                 \o ps.peekToken.Type \o " instead")

\* returns [ps, ok]
expectPeek(ps0, t) ==
    Bind(ps0, LAMBDA ps :
        IF peekTokenIs(ps, t)
        THEN [ps |-> nextToken(ps), ok |-> TRUE]
        ELSE [ps |-> peekError(ps, t), ok |-> FALSE])

peekPrecedence(ps) ==
    IF ps.peekToken.Type \in DOMAIN precedences
    THEN precedences[ps.peekToken.Type] ELSE LOWEST

\* a parseInfixExpression that parses its right operand at LOWEST
curPrecedenceLowest(ps) == LOWEST

curPrecedence(ps) ==
    IF ps.curToken.Type \in DOMAIN precedences
    THEN precedences[ps.curToken.Type] ELSE LOWEST

\* a noPrefixParseFnError that appends nothing
noPrefixParseFnErrorSilent(ps, t) == ps

noPrefixParseFnError(ps, t) ==
    addError(ps, "no prefix parse function for " \o t \o " found")

\* strconv.ParseInt(lit, 0, 64) on the literals readDigit can return (digits,
\* '+' and '-'): an optional sign, then with base 0 a leading "0" followed by
\* more digits selects octal.  Returns [ok, val].
DigitVal(c) ==
    CASE c = "0" -> 0 [] c = "1" -> 1 [] c = "2" -> 2 [] c = "3" -> 3 [] c = "4" -> 4
      [] c = "5" -> 5 [] c = "6" -> 6 [] c = "7" -> 7 [] c = "8" -> 8 [] c = "9" -> 9

RECURSIVE DigitsVal(_, _, _)
DigitsVal(ds0, base, acc0) ==
    Bind(<<ds0, acc0>>, LAMBDA a :
        IF a[1] = <<>> THEN a[2]
        ELSE DigitsVal(Tail(a[1]), base, a[2] * base + DigitVal(Head(a[1]))))

ParseUint(ds) ==
    IF ds = <<>> \/ \E i \in 1..Len(ds) : ~isDigit(ds[i])
    THEN [ok |-> FALSE, val |-> 0]
    ELSE IF Len(ds) > 1 /\ ds[1] = "0"
         THEN IF \E i \in 2..Len(ds) : DigitVal(ds[i]) > 7
              THEN [ok |-> FALSE, val |-> 0]
              ELSE [ok |-> TRUE, val |-> DigitsVal(Tail(ds), 8, 0)]
         ELSE [ok |-> TRUE, val |-> DigitsVal(ds, 10, 0)]

ParseInt(lit) ==
    Bind(Bytes(lit), LAMBDA bs :
        IF bs = <<>> THEN [ok |-> FALSE, val |-> 0]
        ELSE IF bs[1] = "+" THEN ParseUint(Tail(bs))
        ELSE IF bs[1] = "-"
             THEN Bind(ParseUint(Tail(bs)), LAMBDA r : [ok |-> r.ok, val |-> 0 - r.val])
        ELSE ParseUint(bs))

RECURSIVE parseStatement(_), parseLetStatement(_), parseReturnStatement(_),
          parseExpressionStatement(_), parseExpression(_, _),
          parseExpressionLoop(_, _), prefixFn(_), infixFn(_, _),
          parsePrefixExpression(_), parseInfixExpression(_, _),
          parseGroupedExpression(_), parseIfExpression(_),
          parseBlockStatement(_), parseBlockLoop(_),
          parseFunctionLiteral(_), parseCallExpression(_, _),
          parseArrayLiteral(_), parseExpressionList(_, _),
          parseExpressionListLoop(_), parseIndexExpression(_, _)

\* A parse function takes the parser state ps and returns [ps, node]: the
\* state after the call and the node returned.

parseIdentifier(ps) ==
    [ps |-> ps, node |-> Identifier(ps.curToken, ps.curToken.Literal)]

parseIntegerLiteral(ps) ==
    Bind(ParseInt(ps.curToken.Literal), LAMBDA r :
        IF ~r.ok
        THEN [ps |-> addError(ps, "could not parse \"" \o ps.curToken.Literal
                                  \o "\" as integer"),
              node |-> NilNode]
        ELSE [ps |-> ps, node |-> IntegerLiteral(ps.curToken, r.val)])

parseStringLiteral(ps) ==
    [ps |-> ps, node |-> StringLiteral(ps.curToken, ps.curToken.Literal)]

parseBoolean(ps) ==
    [ps |-> ps, node |-> BooleanLit(ps.curToken, curTokenIs(ps, TOKEN_TRUE))]

parsePrefixExpression(ps) ==
    Bind(parseExpression(nextToken(ps), PREFIX), LAMBDA r :
        [ps |-> r.ps,
         node |-> PrefixExpression(ps.curToken, ps.curToken.Literal, r.node)])

parseInfixExpression(ps, left) ==
    Bind(parseExpression(nextToken(ps), curPrecedence(ps)), LAMBDA r :
        [ps |-> r.ps,
         node |-> InfixExpression(ps.curToken, ps.curToken.Literal, left, r.node)])

parseGroupedExpression(ps) ==
    Bind(parseExpression(nextToken(ps), LOWEST), LAMBDA r :
    Bind(expectPeek(r.ps, RPAREN), LAMBDA e :
        IF ~e.ok THEN [ps |-> e.ps, node |-> NilNode]
        ELSE [ps |-> e.ps, node |-> r.node]))

\* The loop of parseBlockStatement on [ps, stmts], the parser state and the
\* statements of the block so far.  When the current and the peek token are
\* both ILLEGAL the lexer stands on a byte it never passes (NextToken returns
\* ILLEGAL without readChar), every further iteration leaves the tokens as
\* they are and the loop never sees RBRACE or EOF: hung records that.
parseBlockLoop(st0) ==
    Bind(st0, LAMBDA st :
        IF st.ps.hung \/ (curTokenIs(st.ps, ILLEGAL) /\ peekTokenIs(st.ps, ILLEGAL))
        THEN [ps |-> [st.ps EXCEPT !.hung = TRUE], stmts |-> st.stmts]
        ELSE IF ~curTokenIs(st.ps, RBRACE) /\ ~curTokenIs(st.ps, EOF)
             THEN Bind(parseStatement(st.ps), LAMBDA r :
                      parseBlockLoop(
                          [ps |-> nextToken(r.ps),
                           stmts |-> IF r.node # NilNode THEN Append(st.stmts, r.node)
                                     ELSE st.stmts]))
             ELSE st)

parseBlockStatement(ps) ==
    Bind(parseBlockLoop([ps |-> nextToken(ps), stmts |-> <<>>]), LAMBDA r :
        [ps |-> r.ps, node |-> BlockStatement(ps.curToken, r.stmts)])

\* no alternative: the nil *ast.BlockStatement
NoBlock == TypedNil("BlockStatement")

\* parseIfExpression from the else on; cons is the consequence parsed
parseIfAlternative(t, cond, cons) ==
    IF peekTokenIs(cons.ps, ELSE_)
    THEN Bind(expectPeek(nextToken(cons.ps), LBRACE), LAMBDA e4 :
             IF ~e4.ok THEN [ps |-> e4.ps, node |-> NilNode]
             ELSE Bind(parseBlockStatement(e4.ps), LAMBDA alt :
                      [ps |-> alt.ps,
                       node |-> IfExpression(t, cond, cons.node, alt.node)]))
    ELSE [ps |-> cons.ps, node |-> IfExpression(t, cond, cons.node, NoBlock)]

parseIfExpression(ps) ==
    Bind(expectPeek(ps, LPAREN), LAMBDA e1 :
        IF ~e1.ok THEN [ps |-> e1.ps, node |-> NilNode]
        ELSE
        Bind(parseExpression(nextToken(e1.ps), LOWEST), LAMBDA c :
        Bind(expectPeek(c.ps, RPAREN), LAMBDA e2 :
            IF ~e2.ok THEN [ps |-> e2.ps, node |-> NilNode]
            ELSE
            Bind(expectPeek(e2.ps, LBRACE), LAMBDA e3 :
                IF ~e3.ok THEN [ps |-> e3.ps, node |-> NilNode]
                ELSE Bind(parseBlockStatement(e3.ps), LAMBDA cons :
                         parseIfAlternative(ps.curToken, c.node, cons))))))

\* the loop of parseFunctionParameters on [ps, params]
RECURSIVE parseFunctionParametersLoop(_)
parseFunctionParametersLoop(st0) ==
    Bind(st0, LAMBDA st :
        IF peekTokenIs(st.ps, COMMA)
        THEN Bind(nextToken(nextToken(st.ps)), LAMBDA ps2 :
                 parseFunctionParametersLoop(
                     [ps |-> ps2,
                      params |-> Append(st.params,
                                        Identifier(ps2.curToken, ps2.curToken.Literal))]))
        ELSE st)

\* returns [ps, params]; the nil slice it returns for "()" and on a failed
\* expectPeek is the empty sequence
parseFunctionParameters(ps) ==
    IF peekTokenIs(ps, RPAREN)
    THEN [ps |-> nextToken(ps), params |-> <<>>]
    ELSE Bind(nextToken(ps), LAMBDA ps1 :
         Bind(parseFunctionParametersLoop(
                  [ps |-> ps1,
                   params |-> <<Identifier(ps1.curToken, ps1.curToken.Literal)>>]),
              LAMBDA r :
         Bind(expectPeek(r.ps, RPAREN), LAMBDA e :
             IF ~e.ok THEN [ps |-> e.ps, params |-> <<>>]
             ELSE [ps |-> e.ps, params |-> r.params])))

parseFunctionLiteral(ps) ==
    Bind(expectPeek(ps, LPAREN), LAMBDA e1 :
        IF ~e1.ok THEN [ps |-> e1.ps, node |-> NilNode]
        ELSE
        Bind(parseFunctionParameters(e1.ps), LAMBDA ps2 :
        Bind(expectPeek(ps2.ps, LBRACE), LAMBDA e2 :
            IF ~e2.ok THEN [ps |-> e2.ps, node |-> NilNode]
            ELSE Bind(parseBlockStatement(e2.ps), LAMBDA body :
                     [ps |-> body.ps,
                      node |-> FunctionLiteral(ps.curToken, ps2.params, body.node)]))))

\* the loop of parseExpressionList on [ps, list]
parseExpressionListLoop(st0) ==
    Bind(st0, LAMBDA st :
        IF peekTokenIs(st.ps, COMMA)
        THEN Bind(parseExpression(nextToken(nextToken(st.ps)), LOWEST), LAMBDA r :
                 parseExpressionListLoop([ps |-> r.ps, list |-> Append(st.list, r.node)]))
        ELSE st)

\* returns [ps, list]; the nil slice of a failed expectPeek is the empty sequence
parseExpressionList(ps, end) ==
    IF peekTokenIs(ps, end)
    THEN [ps |-> nextToken(ps), list |-> <<>>]
    ELSE Bind(parseExpression(nextToken(ps), LOWEST), LAMBDA first :
         Bind(parseExpressionListLoop([ps |-> first.ps, list |-> <<first.node>>]),
              LAMBDA r :
         Bind(expectPeek(r.ps, end), LAMBDA e :
             IF ~e.ok THEN [ps |-> e.ps, list |-> <<>>]
             ELSE [ps |-> e.ps, list |-> r.list])))

parseCallExpression(ps, function) ==
    Bind(parseExpressionList(ps, RPAREN), LAMBDA r :
        [ps |-> r.ps, node |-> CallExpression(ps.curToken, function, r.list)])

parseArrayLiteral(ps) ==
    Bind(parseExpressionList(ps, RBRACKET), LAMBDA r :
        [ps |-> r.ps, node |-> ArrayLiteral(ps.curToken, r.list)])

parseIndexExpression(ps, left) ==
    Bind(parseExpression(nextToken(ps), LOWEST), LAMBDA r :
    Bind(expectPeek(r.ps, RBRACKET), LAMBDA e :
        IF ~e.ok THEN [ps |-> e.ps, node |-> NilNode]
        ELSE [ps |-> e.ps, node |-> IndexExpression(ps.curToken, left, r.node)]))

\* p.prefixParseFns[p.curToken.Type]()
prefixFn(ps) ==
    LET t == ps.curToken.Type
    IN  CASE t = IDENT -> parseIdentifier(ps)
          [] t = INT -> parseIntegerLiteral(ps)
          [] t = TOKEN_STRING -> parseStringLiteral(ps)
          [] t \in {BANG, MINUS} -> parsePrefixExpression(ps)
          [] t \in {TOKEN_TRUE, TOKEN_FALSE} -> parseBoolean(ps)
          [] t = LPAREN -> parseGroupedExpression(ps)
          [] t = IF_ -> parseIfExpression(ps)
          [] t = FUNCTION -> parseFunctionLiteral(ps)
          [] t = LBRACKET -> parseArrayLiteral(ps)

\* p.infixParseFns[p.curToken.Type](left)
infixFn(ps, left) ==
    LET t == ps.curToken.Type
    IN  CASE t = LPAREN -> parseCallExpression(ps, left)
          [] t = LBRACKET -> parseIndexExpression(ps, left)
          [] OTHER -> parseInfixExpression(ps, left)

\* the for loop of parseExpression on [ps, node], node being leftExp
parseExpressionLoop(st0, precedence) ==
    Bind(st0, LAMBDA st :
        IF ~curTokenIs(st.ps, SEMICOLON) /\ precedence < peekPrecedence(st.ps)
        THEN IF st.ps.peekToken.Type \notin infixParseFns
             THEN st
             ELSE Bind(nextToken(st.ps), LAMBDA ps2 :
                      parseExpressionLoop(infixFn(ps2, st.node), precedence))
        ELSE st)

parseExpression(ps0, precedence) ==
    Bind(ps0, LAMBDA ps :
        IF ps.curToken.Type \notin prefixParseFns
        THEN [ps |-> noPrefixParseFnError(ps, ps.curToken.Type), node |-> NilNode]
        ELSE parseExpressionLoop(prefixFn(ps), precedence))

\* the optional semicolon after a statement
skipSemicolon(ps) == IF peekTokenIs(ps, SEMICOLON) THEN nextToken(ps) ELSE ps

\* returns the nil *ast.LetStatement when an expectPeek fails
parseLetStatement(ps) ==
    Bind(expectPeek(ps, IDENT), LAMBDA e1 :
        IF ~e1.ok THEN [ps |-> e1.ps, node |-> TypedNil("LetStatement")]
        ELSE
        Bind(expectPeek(e1.ps, ASSIGN), LAMBDA e2 :
            IF ~e2.ok THEN [ps |-> e2.ps, node |-> TypedNil("LetStatement")]
            ELSE
            Bind(parseExpression(nextToken(e2.ps), LOWEST), LAMBDA v :
                [ps |-> skipSemicolon(v.ps),
                 node |-> LetStatement(ps.curToken,
                              Identifier(e1.ps.curToken, e1.ps.curToken.Literal),
                              v.node)])))

parseReturnStatement(ps) ==
    Bind(parseExpression(nextToken(ps), LOWEST), LAMBDA v :
    Bind(expectPeek(v.ps, SEMICOLON), LAMBDA e :
        [ps |-> e.ps, node |-> ReturnStatement(ps.curToken, v.node)]))

parseExpressionStatement(ps) ==
    Bind(parseExpression(ps, LOWEST), LAMBDA v :
        [ps |-> skipSemicolon(v.ps), node |-> ExpressionStatement(ps.curToken, v.node)])

\* The result is an ast.Statement interface: the pointer parseLetStatement
\* returns is stored in it as it is, a nil pointer included.
parseStatement(ps0) ==
    Bind(ps0, LAMBDA ps :
        CASE ps.curToken.Type = LET_ -> parseLetStatement(ps)
          [] ps.curToken.Type = RETURN -> parseReturnStatement(ps)
          [] OTHER -> parseExpressionStatement(ps))

\* parser.New: the two nextToken calls
NewParser(lx) ==
    Bind(nextToken([l |-> lx, curToken |-> NoToken, peekToken |-> NoToken,
                    errors |-> <<>>, hung |-> FALSE]),
         LAMBDA ps : nextToken(ps))

\* one iteration of the loop of ParseProgram: [ps, stmts]
ParseProgramIteration(ps, stmts) ==
    Bind(parseStatement(ps), LAMBDA r :
        [ps |-> nextToken(r.ps),
         stmts |-> IF r.node # NilNode THEN Append(stmts, r.node) ELSE stmts])

\* ParseProgram from the state ps on, stmts being Program.Statements so far:
\* [ps, stmts] when the loop ends, or when an iteration hangs
RECURSIVE ParseProgram(_, _)
ParseProgram(ps0, stmts0) ==
    Bind(<<ps0, stmts0>>, LAMBDA a :
        IF a[1].hung \/ a[1].curToken.Type = EOF THEN [ps |-> a[1], stmts |-> a[2]]
        ELSE Bind(ParseProgramIteration(a[1], a[2]), LAMBDA r :
                 ParseProgram(r.ps, r.stmts)))

\* ------------------------------------------------------------------ ast: String()

\* strings.Join(strs, sep)
RECURSIVE Join(_, _)
Join(strs0, sep) ==
    Bind(strs0, LAMBDA strs :
        IF strs = <<>> THEN ""
        ELSE IF Len(strs) = 1 THEN strs[1]
        ELSE strs[1] \o sep \o Join(Tail(strs), sep))

\* A String() method called on a nil interface or through a nil pointer
\* panics: HasNil(node) says that String(node) reaches such a call, and
\* String(node) is the string returned when it does not.
RECURSIVE HasNil(_), String(_), StringAll(_)

HasNil(node0) ==
    Bind(node0, LAMBDA node :
        CASE node.kind \in {"nil", "nilptr"} -> TRUE
          [] node.kind \in {"Identifier", "IntegerLiteral", "StringLiteral", "Boolean"} -> FALSE
          [] node.kind = "PrefixExpression" -> HasNil(node.Right)
          [] node.kind = "InfixExpression" -> HasNil(node.Left) \/ HasNil(node.Right)
          [] node.kind = "IfExpression" ->
                \/ HasNil(node.Condition)
                \/ HasNil(node.Consequence)
                \/ (node.Alternative # NoBlock /\ HasNil(node.Alternative))
          [] node.kind = "BlockStatement" ->
                \E i \in 1..Len(node.Statements) : HasNil(node.Statements[i])
          [] node.kind = "FunctionLiteral" -> HasNil(node.Body)
          [] node.kind = "CallExpression" ->
                \/ HasNil(node.Function)
                \/ \E i \in 1..Len(node.Arguments) : HasNil(node.Arguments[i])
          [] node.kind = "ArrayLiteral" ->
                \E i \in 1..Len(node.Elements) : HasNil(node.Elements[i])
          [] node.kind = "IndexExpression" -> HasNil(node.Left) \/ HasNil(node.Index)
          [] node.kind = "LetStatement" -> node.Value # NilNode /\ HasNil(node.Value)
          [] node.kind = "ReturnStatement" ->
                node.ReturnValue # NilNode /\ HasNil(node.ReturnValue)
          [] node.kind = "ExpressionStatement" ->
                node.Expression # NilNode /\ HasNil(node.Expression))

\* the String() of every node of a list, in order
StringAll(nodes) == [i \in 1..Len(nodes) |-> String(nodes[i])]

String(node0) ==
    Bind(node0, LAMBDA node :
        CASE node.kind \in {"nil", "nilptr"} -> "<nil>"
          [] node.kind = "Identifier" -> node.Value
          [] node.kind = "IntegerLiteral" -> node.Token.Literal
          [] node.kind = "StringLiteral" -> node.Token.Literal
          [] node.kind = "Boolean" -> node.Token.Literal
          [] node.kind = "PrefixExpression" ->
                "(" \o node.Operator \o String(node.Right) \o ")"
          [] node.kind = "InfixExpression" ->
                "(" \o String(node.Left) \o " " \o node.Operator \o " "
                    \o String(node.Right) \o ")"
          [] node.kind = "IfExpression" ->
                "if" \o String(node.Condition) \o " " \o String(node.Consequence)
                     \o (IF node.Alternative # NoBlock
                         THEN "else " \o String(node.Alternative) ELSE "")
          [] node.kind = "BlockStatement" -> Join(StringAll(node.Statements), "")
          [] node.kind = "FunctionLiteral" ->
                node.Token.Literal \o "(" \o Join(StringAll(node.Parameters), ", ")
                    \o ") " \o String(node.Body)
          [] node.kind = "CallExpression" ->
                String(node.Function) \o "(" \o Join(StringAll(node.Arguments), ", ") \o ")"
          [] node.kind = "ArrayLiteral" ->
                "[" \o Join(StringAll(node.Elements), ", ") \o "]"
          [] node.kind = "IndexExpression" ->
                "(" \o String(node.Left) \o "[" \o String(node.Index) \o "])"
          [] node.kind = "LetStatement" ->
                node.Token.Literal \o " " \o String(node.Name) \o " = "
                    \o (IF node.Value # NilNode THEN String(node.Value) ELSE "") \o ";"
          [] node.kind = "ReturnStatement" ->
                node.Token.Literal \o " "
                    \o (IF node.ReturnValue # NilNode THEN String(node.ReturnValue) ELSE "")
                    \o ";"
          [] node.kind = "ExpressionStatement" ->
                IF node.Expression # NilNode THEN String(node.Expression) ELSE "")

\* Program.String()
ProgramString(stmts) == Join(StringAll(stmts), "")

\* ------------------------------------------------------------------ object

INTEGER_OBJ == "INTEGER"
STRING_OBJ == "STRING"
BOOLEAN_OBJ == "BOOLEAN"
NULL_OBJ == "NULL"
RETURN_VALUE_OBJ == "RETURN_VALUE"
ERROR_OBJ == "ERROR"
FUNCTION_OBJ == "FUNCTION"
BUILTIN_OBJ == "BUILTIN"

\* An object.Object is a record whose type field is what Type() returns.
\* Booleans, ReturnValues and Functions are compared by address somewhere in
\* the evaluator: ref is the address, the number of the allocation.  Integers,
\* Strings and Errors are never compared by address and carry none.
Integer(value) == [type |-> INTEGER_OBJ, Value |-> value]
StringObject(value) == [type |-> STRING_OBJ, Value |-> value]
Boolean(ref, value) == [type |-> BOOLEAN_OBJ, Value |-> value, ref |-> ref]
ReturnValue(ref, value) == [type |-> RETURN_VALUE_OBJ, Value |-> value, ref |-> ref]
Error(message) == [type |-> ERROR_OBJ, Message |-> message]
Function(ref, parameters, body, env) ==
    [type |-> FUNCTION_OBJ, Parameters |-> parameters, Body |-> body, Env |-> env,
     ref |-> ref]
Builtin(name) == [type |-> BUILTIN_OBJ, name |-> name]

\* the nil object.Object; calling Type() on it is a nil pointer dereference
NilObject == [type |-> "nil"]

\* An Environment is a record [store, outer] in the heap, the sequence of all
\* environments allocated (hp below); a *Environment is its index, nil is 0.
NilEnv == 0
EmptyStore == [n \in {} |-> NilObject]

NewEnvironment(hp) == Append(hp, [store |-> EmptyStore, outer |-> NilEnv])

\* a NewEnclosedEnvironment that forgets its outer environment
NewEnclosedEnvironmentDetached(hp, outer) ==
    Append(hp, [store |-> EmptyStore, outer |-> NilEnv])

\* a NewEnclosedEnvironment whose environment is its own outer
NewEnclosedEnvironmentSelf(hp, outer) ==
    Append(hp, [store |-> EmptyStore, outer |-> Len(hp) + 1])

NewEnclosedEnvironment(hp, outer) ==
    Append(hp, [store |-> EmptyStore, outer |-> outer])

\* a Get that looks in the store of e only
GetLocal(hp, e0, identifier) ==
    Bind(e0, LAMBDA e :
        IF identifier \in DOMAIN hp[e].store
        THEN [ok |-> TRUE, obj |-> hp[e].store[identifier], at |-> e]
        ELSE [ok |-> FALSE, obj |-> NilObject, at |-> NilEnv])

\* e.Get(identifier): [ok, obj] and at, the environment that had the binding
RECURSIVE Get(_, _, _)
Get(hp, e0, identifier) ==
    Bind(e0, LAMBDA e :
        IF identifier \in DOMAIN hp[e].store
        THEN [ok |-> TRUE, obj |-> hp[e].store[identifier], at |-> e]
        ELSE IF hp[e].outer # NilEnv
             THEN Get(hp, hp[e].outer, identifier)
             ELSE [ok |-> FALSE, obj |-> NilObject, at |-> NilEnv])

\* e.Set(identifier, val): the heap after it
Set(hp, e, identifier, val) ==
    [hp EXCEPT ![e].store =
        [n \in DOMAIN @ \cup {identifier} |-> IF n = identifier THEN val ELSE @[n]]]

\* ------------------------------------------------------------------ evaluator

\* nested calls of applyFunction the host's stack has room for
MaxCallDepth == 2

NULL == [type |-> NULL_OBJ]
TRUE_ == Boolean(1, TRUE)
FALSE_ == Boolean(2, FALSE)

\* the addresses taken before evaluation starts: those of TRUE_ and FALSE_
FirstRefs == 2

\* a == b on two object.Object values: the same object
SamePointer(a, b) ==
    /\ a.type = b.type
    /\ CASE a.type \in {BOOLEAN_OBJ, RETURN_VALUE_OBJ, FUNCTION_OBJ} -> a.ref = b.ref
         [] a.type = BUILTIN_OBJ -> a.name = b.name
         [] a.type \in {NULL_OBJ, "nil"} -> TRUE
         [] OTHER -> FALSE

\* A Go panic unwinds every caller: it is the value every step passes on.
Panic(message) == [type |-> "panic", Message |-> message]

\* the result field of a call of Eval that has not returned
Pending == [type |-> "pending"]

\* what evalExpressions returns: a []object.Object
List(elems) == [type |-> "list", elems |-> elems]

\* what extendFunctionEnv returns: a *Environment
EnvRef(index) == [type |-> "env", index |-> index]

\* The evaluator works on st = [heap, nref, evals, cur, depth]: the
\* environments, the number of addresses taken, the record of every call of
\* Eval, the call of Eval that is running and the number of applyFunction
\* calls on the stack.  Every step returns [val, st].
Ret(val, st) == [val |-> val, st |-> st]

\* F on the outcome r0 of a step, unless the step panicked
Then(r0, F(_)) ==
    CHOOSE y \in {IF r.val.type = "panic" THEN r ELSE F(r) : r \in {r0}} : TRUE

newError(message) == Error(message)

\* an isError that takes no object for an Error
isErrorNever(obj) == FALSE

isError(obj) == obj # NilObject /\ obj.type = ERROR_OBJ

nativeBoolToBooleanObject(val) == IF val THEN TRUE_ ELSE FALSE_

evalBangOperatorRight(right) ==
    CASE SamePointer(right, TRUE_) -> FALSE_
      [] SamePointer(right, FALSE_) -> TRUE_
      [] SamePointer(right, NULL) -> TRUE_
      [] OTHER -> FALSE_

evalMinusPrefixOperatorRight(right) ==
    IF right = NilObject THEN Panic("nil pointer dereference")
    ELSE IF right.type # INTEGER_OBJ THEN newError("unknown operator: -" \o right.type)
    ELSE Integer(0 - right.Value)

evalPrefixExpression(operator, right) ==
    CASE operator = "!" -> evalBangOperatorRight(right)
      [] operator = "-" -> evalMinusPrefixOperatorRight(right)
      [] OTHER -> IF right = NilObject THEN Panic("nil pointer dereference")
                  ELSE newError("unknown operator: " \o operator \o right.type)

\* Go's integer division truncates toward zero
Quot(a, b) ==
    LET abs(x) == IF x < 0 THEN 0 - x ELSE x
    IN  IF (a < 0) = (b < 0) THEN abs(a) \div abs(b) ELSE 0 - (abs(a) \div abs(b))

evalIntegerInfixExpression(operator, left, right) ==
    LET leftVal == left.Value
        rightVal == right.Value
    IN  CASE operator = "+" -> Integer(leftVal + rightVal)
          [] operator = "-" -> Integer(leftVal - rightVal)
          [] operator = "*" -> Integer(leftVal * rightVal)
          [] operator = "/" -> IF rightVal = 0 THEN Panic("integer divide by zero")
                               ELSE Integer(Quot(leftVal, rightVal))
          [] operator = "<" -> nativeBoolToBooleanObject(leftVal < rightVal)
          [] operator = ">" -> nativeBoolToBooleanObject(leftVal > rightVal)
          [] operator = "==" -> nativeBoolToBooleanObject(leftVal = rightVal)
          [] operator = "!=" -> nativeBoolToBooleanObject(leftVal # rightVal)
          [] OTHER -> newError("unknown operator: " \o left.type \o " " \o operator
                               \o " " \o right.type)

\* == and != allocate a new Boolean: [val, st]
evalStringInfixExpression(operator, left, right, st) ==
    LET leftVal == left.Value
        rightVal == right.Value
    IN  CASE operator = "+" -> Ret(StringObject(leftVal \o rightVal), st)
          [] operator = "==" -> Ret(Boolean(st.nref + 1, leftVal = rightVal),
                                    [st EXCEPT !.nref = @ + 1])
          [] operator = "!=" -> Ret(Boolean(st.nref + 1, leftVal # rightVal),
                                    [st EXCEPT !.nref = @ + 1])
          [] OTHER -> Ret(newError("unknown operator: " \o left.type \o " " \o operator
                                   \o " " \o right.type), st)

\* an evalInfixExpression that does not compare the types of its operands
evalInfixExpressionUntyped(operator, left, right, st) ==
    CASE left = NilObject \/ right = NilObject ->
            Ret(Panic("nil pointer dereference"), st)
      [] left.type = INTEGER_OBJ /\ right.type = INTEGER_OBJ ->
            Ret(evalIntegerInfixExpression(operator, left, right), st)
      [] left.type = STRING_OBJ /\ right.type = STRING_OBJ ->
            evalStringInfixExpression(operator, left, right, st)
      [] operator = "==" -> Ret(nativeBoolToBooleanObject(SamePointer(left, right)), st)
      [] operator = "!=" -> Ret(nativeBoolToBooleanObject(~SamePointer(left, right)), st)
      [] OTHER -> Ret(newError("unknown operator: " \o left.type \o " " \o operator
                               \o " " \o right.type), st)

\* left.Type() and right.Type() are called on whatever the operands are
evalInfixExpression(operator, left, right, st) ==
    CASE left = NilObject \/ right = NilObject ->
            Ret(Panic("nil pointer dereference"), st)
      [] left.type = INTEGER_OBJ /\ right.type = INTEGER_OBJ ->
            Ret(evalIntegerInfixExpression(operator, left, right), st)
      [] left.type = STRING_OBJ /\ right.type = STRING_OBJ ->
            evalStringInfixExpression(operator, left, right, st)
      [] left.type # right.type ->
            Ret(newError("type mismatch: " \o left.type \o " " \o operator \o " "
                         \o right.type), st)
      [] operator = "==" -> Ret(nativeBoolToBooleanObject(SamePointer(left, right)), st)
      [] operator = "!=" -> Ret(nativeBoolToBooleanObject(~SamePointer(left, right)), st)
      [] OTHER -> Ret(newError("unknown operator: " \o left.type \o " " \o operator
                               \o " " \o right.type), st)

isTruthy(obj) ==
    CASE SamePointer(obj, NULL) -> FALSE
      [] SamePointer(obj, TRUE_) -> TRUE
      [] SamePointer(obj, FALSE_) -> FALSE
      [] OTHER -> TRUE

builtins == {"len"}

\* a len that takes the length of its first argument, whatever else it is given
builtinLenOfFirst(args) ==
    IF args = <<>>
    THEN newError("wrong number of arguments. got=0, want=1")
    ELSE IF args[1] = NilObject THEN Panic("nil pointer dereference")
    ELSE IF args[1].type = STRING_OBJ THEN Integer(Len(args[1].Value))
    ELSE Integer(0)

\* builtins["len"].Fn(args...); the backquotes around len in the message of
\* the code are written as quotes here
builtinLen(args) ==
    IF Len(args) # 1
    THEN newError("wrong number of arguments. got=" \o ToString(Len(args)) \o ", want=1")
    ELSE IF args[1] = NilObject THEN Panic("nil pointer dereference")
    ELSE IF args[1].type = STRING_OBJ THEN Integer(Len(args[1].Value))
    ELSE newError("argument to 'len' not supported, got " \o args[1].type)

\* an evalIdentifier that consults the built-ins before the environment
evalIdentifierBuiltinFirst(node, env, st) ==
    IF node.Value \in builtins THEN Ret(Builtin(node.Value), st)
    ELSE Bind(Get(st.heap, env, node.Value), LAMBDA g :
             IF g.ok THEN Ret(g.obj, [st EXCEPT !.evals[st.cur].at = g.at])
             ELSE Ret(newError("identifier not found: " \o node.Value), st))

\* an evalIdentifier that looks in the store of env only, not in its outer chain
evalIdentifierLocal(node, env, st) ==
    Bind(GetLocal(st.heap, env, node.Value), LAMBDA g :
        IF g.ok THEN Ret(g.obj, [st EXCEPT !.evals[st.cur].at = g.at])
        ELSE IF node.Value \in builtins THEN Ret(Builtin(node.Value), st)
        ELSE Ret(newError("identifier not found: " \o node.Value), st))

\* [val, st]: st records in the running call of Eval where the name was found
evalIdentifier(node, env, st) ==
    Bind(Get(st.heap, env, node.Value), LAMBDA g :
        IF g.ok THEN Ret(g.obj, [st EXCEPT !.evals[st.cur].at = g.at])
        ELSE IF node.Value \in builtins THEN Ret(Builtin(node.Value), st)
        ELSE Ret(newError("identifier not found: " \o node.Value), st))

unwrapReturnValue(res) ==
    IF res # NilObject /\ res.type = RETURN_VALUE_OBJ THEN res.Value ELSE res

\* the loop of extendFunctionEnv from parameter paramIdx on (0-based); newEnv
\* is the environment being filled
RECURSIVE extendFunctionEnvLoop(_, _, _, _, _)
extendFunctionEnvLoop(function, args, paramIdx0, newEnv, st0) ==
    Bind(<<paramIdx0, st0>>, LAMBDA a :
        IF a[1] >= Len(function.Parameters) THEN Ret(EnvRef(newEnv), a[2])
        ELSE IF a[1] >= Len(args) THEN Ret(Panic("index out of range"), a[2])
        ELSE extendFunctionEnvLoop(function, args, a[1] + 1, newEnv,
                 [a[2] EXCEPT !.heap = Set(@, newEnv, function.Parameters[a[1] + 1].Value,
                                           args[a[1] + 1])]))

\* an extendFunctionEnv that binds the parameters in the captured environment
extendFunctionEnvCaptured(function, args, st) ==
    extendFunctionEnvLoop(function, args, 0, function.Env, st)

extendFunctionEnv(function, args, st) ==
    extendFunctionEnvLoop(function, args, 0, Len(st.heap) + 1,
        [st EXCEPT !.heap = NewEnclosedEnvironment(@, function.Env)])

RECURSIVE Eval(_, _, _), EvalNode(_, _, _), evalExpressionsLoop(_, _, _, _),
          evalBlockStatementLoop(_, _, _, _), evalIfExpression(_, _, _),
          applyFunction(_, _, _)

\* the loop of evalExpressions from expression i on; r0 = [val, st] holds
\* the result slice so far
evalExpressionsLoop(expressions, i0, env, r0) ==
    Bind(<<i0, r0>>, LAMBDA a :
        IF a[1] > Len(expressions) THEN a[2]
        ELSE Then(Eval(expressions[a[1]], env, a[2].st), LAMBDA evaluated :
                 IF isError(evaluated.val)
                 THEN Ret(List(<<evaluated.val>>), evaluated.st)
                 ELSE evalExpressionsLoop(expressions, a[1] + 1, env,
                          Ret(List(Append(a[2].val.elems, evaluated.val)), evaluated.st))))

evalExpressions(expressions, env, st) ==
    evalExpressionsLoop(expressions, 1, env, Ret(List(<<>>), st))

\* the loop of evalBlockStatement from statement i on; r0 = [val, st] holds
\* the result so far
evalBlockStatementLoop(stmts, i0, env, r0) ==
    Bind(<<i0, r0>>, LAMBDA a :
        IF a[1] > Len(stmts) THEN a[2]
        ELSE Then(Eval(stmts[a[1]], env, a[2].st), LAMBDA res :
                 IF res.val # NilObject
                    /\ res.val.type \in {RETURN_VALUE_OBJ, ERROR_OBJ}
                 THEN res
                 ELSE evalBlockStatementLoop(stmts, a[1] + 1, env, res)))

evalBlockStatement(node, env, st) ==
    evalBlockStatementLoop(node.Statements, 1, env, Ret(NilObject, st))

evalIfExpression(ie, env, st) ==
    Then(Eval(ie.Condition, env, st), LAMBDA condition :
        IF isError(condition.val) THEN condition
        ELSE IF isTruthy(condition.val) THEN Eval(ie.Consequence, env, condition.st)
        ELSE IF ie.Alternative # NoBlock THEN Eval(ie.Alternative, env, condition.st)
        ELSE Ret(NULL, condition.st))

\* A call deeper than MaxCallDepth overflows the stack of the host.
applyFunction(fn, args, st) ==
    CASE fn = NilObject -> Ret(Panic("nil pointer dereference"), st)
      [] fn.type = FUNCTION_OBJ ->
            IF st.depth >= MaxCallDepth THEN Ret(Panic("stack overflow"), st)
            ELSE Then(extendFunctionEnv(fn, args, st), LAMBDA extendedEnv :
                 Then(Eval(fn.Body, extendedEnv.val.index,
                           [extendedEnv.st EXCEPT !.depth = @ + 1]),
                      LAMBDA evaluated :
                          Ret(unwrapReturnValue(evaluated.val),
                              [evaluated.st EXCEPT !.depth = @ - 1])))
      [] fn.type = BUILTIN_OBJ -> Ret(builtinLen(args), st)
      [] OTHER -> Ret(newError("not a function: " \o fn.type), st)

\* the switch of Eval on the type of node
EvalNode(node, env, st) ==
    CASE node.kind = "nilptr" -> Ret(Panic("nil pointer dereference"), st)
      [] node.kind = "ExpressionStatement" -> Eval(node.Expression, env, st)
      [] node.kind = "IntegerLiteral" -> Ret(Integer(node.Value), st)
      [] node.kind = "StringLiteral" -> Ret(StringObject(node.Value), st)
      [] node.kind = "Boolean" -> Ret(nativeBoolToBooleanObject(node.Value), st)
      [] node.kind = "PrefixExpression" ->
            Then(Eval(node.Right, env, st), LAMBDA right :
                IF isError(right.val) THEN right
                ELSE Ret(evalPrefixExpression(node.Operator, right.val), right.st))
      [] node.kind = "InfixExpression" ->
            Then(Eval(node.Left, env, st), LAMBDA left :
                IF isError(left.val) THEN left
                ELSE Then(Eval(node.Right, env, left.st), LAMBDA right :
                         IF isError(right.val) THEN right
                         ELSE evalInfixExpression(node.Operator, left.val, right.val,
                                                  right.st)))
      [] node.kind = "IfExpression" -> evalIfExpression(node, env, st)
      [] node.kind = "BlockStatement" -> evalBlockStatement(node, env, st)
      [] node.kind = "ReturnStatement" ->
            Then(Eval(node.ReturnValue, env, st), LAMBDA val :
                IF isError(val.val) THEN val
                ELSE Ret(ReturnValue(val.st.nref + 1, val.val),
                         [val.st EXCEPT !.nref = @ + 1]))
      [] node.kind = "LetStatement" ->
            Then(Eval(node.Value, env, st), LAMBDA val :
                IF isError(val.val) THEN val
                ELSE Ret(NilObject,
                         [val.st EXCEPT !.heap = Set(@, env, node.Name.Value, val.val)]))
      [] node.kind = "Identifier" -> evalIdentifier(node, env, st)
      [] node.kind = "FunctionLiteral" ->
            Ret(Function(st.nref + 1, node.Parameters, node.Body, env),
                [st EXCEPT !.nref = @ + 1])
      [] node.kind = "CallExpression" ->
            Then(Eval(node.Function, env, st), LAMBDA function :
                IF isError(function.val) THEN function
                ELSE Then(evalExpressions(node.Arguments, env, function.st), LAMBDA args :
                         IF Len(args.val.elems) = 1 /\ isError(args.val.elems[1])
                         THEN Ret(args.val.elems[1], args.st)
                         ELSE applyFunction(function.val, args.val.elems, args.st)))
      [] OTHER -> Ret(NilObject, st)

\* the record of a call of Eval: the node, the environment, the call of Eval
\* that made it (0: evalProgram), the value returned, and for an identifier
\* the environment that had its binding
Enter(node, env, st) ==
    [st EXCEPT !.evals = Append(@, [node |-> node, env |-> env, parent |-> st.cur,
                                    result |-> Pending, at |-> NilEnv]),
               !.cur = Len(st.evals) + 1]

Leave(i, r0) ==
    CHOOSE y \in {IF r.val.type = "panic" THEN r
                  ELSE Ret(r.val, [r.st EXCEPT !.evals[i].result = r.val,
                                               !.cur = r.st.evals[i].parent])
                  : r \in {r0}} : TRUE

Eval(node0, env0, st0) ==
    Bind(<<node0, env0, st0>>, LAMBDA a :
        Leave(Len(a[3].evals) + 1, EvalNode(a[1], a[2], Enter(a[1], a[2], a[3]))))

\* ------------------------------------------------------------------ states

\* values of the variables an object not yet constructed has
NoLexer == [input |-> <<>>, ch |-> NUL, position |-> 0, readPosition |-> 0]
NoParser == [curToken |-> NoToken, peekToken |-> NoToken, errors |-> <<>>, hung |-> FALSE]

\* the evaluator before the host has called Eval
EvalIdle ==
    /\ heap = <<>>
    /\ nref = FirstRefs
    /\ evals = <<>>
    /\ result = NilObject
    /\ next = 1

\* all sequences over S of length at most n
RECURSIVE SeqsUpTo(_, _)
SeqsUpTo(S, n) ==
    IF n = 0 THEN {<<>>}
    ELSE Bind(SeqsUpTo(S, n - 1), LAMBDA shorter :
             shorter \cup {Append(s, c) : s \in {t \in shorter : Len(t) = n - 1}, c \in S})

\* ------------------------------------------------------------------ the lexer alone

MaxLexLen == 3
MaxPastEOF == 2

LexAlphabet == {"a", "5", "+", "=", " ", "[", NUL}

LexInputs == SeqsUpTo(LexAlphabet, MaxLexLen)

InitLex ==
    /\ \E input \in LexInputs : l = NewLexer(input)
    /\ tok = NoToken
    /\ p = NoParser
    /\ program = <<>>
    /\ pc = "lex"
    /\ EvalIdle

\* the host calls l.NextToken(); calls past the end of the input are cut off
\* after MaxPastEOF bytes because position grows with every call
LexNextToken ==
    /\ pc = "lex"
    /\ l.position < Len(l.input) + MaxPastEOF
    /\ \E r \in {NextToken(l)} :
           /\ l' = r.l
           /\ tok' = r.tok
    /\ UNCHANGED <<p, program, pc, evalVars>>

NextLex == LexNextToken

SpecLex == InitLex /\ [][NextLex]_vars

\* ------------------------------------------------------------------ the parser

\* the source text made of words separated by one space
RECURSIVE Source(_)
Source(words0) ==
    Bind(words0, LAMBDA words :
        IF words = <<>> THEN <<>>
        ELSE IF Len(words) = 1 THEN Bytes(words[1])
        ELSE Bytes(words[1]) \o <<" ">> \o Source(Tail(words)))

MaxWords == 3
MaxOperators == 3
MaxStuckErrors == 3

Words == {"let", "x", "=", "5", ";", "[", "("}

InfixOperators == {"+", "-", "*", "/", "<", ">", "==", "!="}

Operands == <<"a", "1", "b", "2", "c", "3">>

\* operand (operator operand)*: the operands are a, 1, b, 2, c, 3 in this order
RECURSIVE Interleave(_, _)
Interleave(ops0, i) ==
    Bind(ops0, LAMBDA ops :
        IF ops = <<>> THEN <<Operands[i]>>
        ELSE <<Operands[i], Head(ops)>> \o Interleave(Tail(ops), i + 1))

WordInputs == {Source(ws) : ws \in SeqsUpTo(Words, MaxWords)}

InfixInputs == {Source(Interleave(ops, 1)) : ops \in SeqsUpTo(InfixOperators, MaxOperators)}

BlockInputs ==
    {Bytes("if (x) { ["), Bytes("fn (x) { let y = 5; y }"), Bytes("if (x) { 5 } else { [ }"),
     Bytes("let x = if (x) { let 5 };"), Bytes("f(x, 5)"),
     Bytes("return 5"), Bytes("return 5;"), Bytes("return x }"),
     Bytes("fn() { return x }"), Bytes("if (x) { 5 }"), Bytes("if (x) { 5 } else { y }"),
     Bytes("fn(x, y) { x }"), Bytes("fn(1, 2) { }"), Bytes("fn(x, ) { }"),
     Bytes("fn(x, 5) { x }"), Bytes("fn(fn) { 1 }"), Bytes("let f = fn(x { x };"),
     Bytes("5 *"), Bytes("!"), Bytes("let x = ;"), Bytes("return ;"), Bytes("if (x) 5"),
     Bytes("if x { 5 }"), Bytes("if (x) { 5 } else 5"), Bytes("fn(x) 5"), Bytes("fn x { 5 }"),
     Bytes("f(x"), Bytes("f(x, )"), Bytes("(5"), Bytes("f(5 5)"), Bytes("if () { 5 }")}

ParseInputs == WordInputs \cup InfixInputs \cup BlockInputs

InitParse ==
    /\ \E input \in ParseInputs : l = NewLexer(input)
    /\ tok = NoToken
    /\ p = NoParser
    /\ program = <<>>
    /\ pc = "new"
    /\ EvalIdle

\* the parser state made of the Parser p and its Lexer l
PS == [l |-> l, curToken |-> p.curToken, peekToken |-> p.peekToken,
       errors |-> p.errors, hung |-> p.hung]

ParserOf(ps) == [curToken |-> ps.curToken, peekToken |-> ps.peekToken,
                 errors |-> ps.errors, hung |-> ps.hung]

\* p := parser.New(l)
ParserNew ==
    /\ pc = "new"
    /\ \E ps \in {NewParser(l)} :
           /\ l' = ps.l
           /\ p' = ParserOf(ps)
    /\ pc' = "parse"
    /\ UNCHANGED <<tok, program, evalVars>>

\* One iteration of the loop of ParseProgram.  An iteration that hangs in
\* parseBlockStatement never ends: the host stays in "hung".  The errors a
\* loop that never ends appends are cut off MaxStuckErrors beyond what an
\* input of this length can produce.
ParseStep ==
    /\ pc = "parse"
    /\ p.curToken.Type # EOF
    /\ Len(p.errors) < 2 * Len(l.input) + MaxStuckErrors
    /\ \E r \in {ParseProgramIteration(PS, program)} :
           /\ l' = r.ps.l
           /\ p' = ParserOf(r.ps)
           /\ program' = r.stmts
           /\ pc' = IF r.ps.hung THEN "hung" ELSE "parse"
    /\ UNCHANGED <<tok, evalVars>>

\* ParseProgram returns the Program
ParseReturn ==
    /\ pc = "parse"
    /\ p.curToken.Type = EOF
    /\ pc' = "parsed"
    /\ UNCHANGED <<l, tok, p, program, evalVars>>

NextParse == ParserNew \/ ParseStep \/ ParseReturn

SpecParse == InitParse /\ [][NextParse]_vars

\* ------------------------------------------------------------------ the evaluator

\* the source text of statements separated by one space
RECURSIVE SourceOf(_)
SourceOf(stmts0) ==
    Bind(stmts0, LAMBDA stmts :
        IF stmts = <<>> THEN <<>>
        ELSE IF Len(stmts) = 1 THEN Bytes(stmts[1])
        ELSE Bytes(stmts[1]) \o <<" ">> \o SourceOf(Tail(stmts)))

MaxStatements == 2

Statements ==
    {"let x = 5;", "let f = fn(y) { return y * x; 1 };", "f(2);", "x / 0;", "x;",
     "return x;", "if (x > 1) { return 0 - x; }", "!x == len;"}

StatementInputs == {SourceOf(ss) : ss \in SeqsUpTo(Statements, MaxStatements)}

AbortInputs ==
    {Bytes("5 / 0;"), Bytes("fn(x) { x }();"), Bytes("let f = fn(a, b) { a }; f(1);"),
     Bytes("-if (true) { };"), Bytes("1 + if (true) { let a = 2; };"),
     Bytes("if (false) { 1 }();"), Bytes("len(if (true) { });"),
     Bytes("let f = fn() { f() }; f();")}

ErrorInputs ==
    {Bytes("foo + 1;"), Bytes("1 + foo; 2"), Bytes("foo + bar;"), Bytes("!foo;"),
     Bytes("-foo;"), Bytes("if (foo) { 1 } else { 2 }"), Bytes("let x = foo; x;"),
     Bytes("return foo;"), Bytes("foo(1, 2);"), Bytes("len(1, foo, bar);"),
     Bytes("let f = fn(a) { a }; f(foo);"), Bytes("if (true) { foo; 1 } 2;"),
     Bytes("-true;"), Bytes("true + false;"), Bytes("1 == true;"), Bytes("5();"),
     Bytes("len(1);"), Bytes("len();"), Bytes("let f = fn() { foo; 1 }; f(); 2;")}

ReturnInputs ==
    {Bytes("return if (true) { return 5; };"),
     Bytes("let f = fn() { return if (true) { return 5; }; }; f();"),
     Bytes("let x = if (true) { return 5; }; 7;"),
     Bytes("if (true) { let x = if (true) { return 5; }; 7 }"),
     Bytes("if (true) { if (true) { return 10; } return 1; } 3;"),
     Bytes("let f = fn() { return 1; 2 }; f(); 3;"),
     Bytes("let f = fn() { if (true) { return 1; } 2 }; let y = f(); y + 3;"),
     Bytes("return 1; 2;"), Bytes("if (1 < 2) { 1 } else { return 2; } 3;"),
     Bytes("!if (true) { return 5; }; 7;")}

ClosureInputs ==
    {Bytes("let x = 1; let f = fn() { x }; let g = fn(x) { f() }; g(2);"),
     Bytes("let mk = fn(n) { fn() { n } }; let a = mk(1); let b = mk(2); let g = fn(n) { a() - b() }; g(7);"),
     Bytes("let add = fn(a) { fn(b) { let c = a + b; c } }; let a = 9; add(1)(2);"),
     Bytes("let f = fn(x) { x }; f(1, 2);"), Bytes("let f = fn() { f }; f() == f;"),
     Bytes("fn(x) { x } == fn(x) { x };"),
     Bytes("let x = 1; let f = fn(y) { let x = y; x }; f(2); f(3) + x;"),
     Bytes("let f = fn(n) { if (n < 1) { 0 } else { f(n - 1) } }; f(1);"),
     Bytes("let g = fn() { z }; let z = 3; g();"),
     Bytes("let len = fn(s) { 7 }; len(1);"),
     Bytes("let f = fn(len) { len }; f(2) + f(len);"),
     Bytes("let f = fn() { }; f();"), Bytes("if (true) { }")}

RefusedInputs == {Bytes("let x 5;"), Bytes("return 5")}

EvalInputs ==
    StatementInputs \cup AbortInputs \cup ErrorInputs \cup ReturnInputs
        \cup ClosureInputs \cup RefusedInputs

InitEval ==
    /\ \E input \in EvalInputs : l = NewLexer(input)
    /\ tok = NoToken
    /\ p = NoParser
    /\ program = <<>>
    /\ pc = "new"
    /\ EvalIdle

\* the state the evaluator works on between two statements of the program
ST == [heap |-> heap, nref |-> nref, evals |-> evals, cur |-> 0, depth |-> 0]

\* The host refuses a program with parse errors; otherwise it calls
\* Eval(program, object.NewEnvironment()), which enters evalProgram.
EvalStart ==
    /\ pc = "parsed"
    /\ p.errors = <<>>
    /\ heap' = NewEnvironment(heap)
    /\ result' = NilObject
    /\ next' = 1
    /\ pc' = "eval"
    /\ UNCHANGED <<l, tok, p, program, nref, evals>>

\* One iteration of the loop of evalProgram.  A panic ends the host:
\* "aborted".
EvalStatement ==
    /\ pc = "eval"
    /\ next <= Len(program)
    /\ \E r \in {Eval(program[next], 1, ST)} :
           /\ heap' = r.st.heap
           /\ nref' = r.st.nref
           /\ evals' = r.st.evals
           /\ CASE r.val.type = "panic" ->
                     result' = r.val /\ pc' = "aborted" /\ next' = next
                [] r.val.type = RETURN_VALUE_OBJ ->
                     result' = r.val.Value /\ pc' = "evaluated" /\ next' = next
                [] r.val.type = ERROR_OBJ ->
                     result' = r.val /\ pc' = "evaluated" /\ next' = next
                [] OTHER ->
                     result' = r.val /\ pc' = "eval" /\ next' = next + 1
    /\ UNCHANGED <<l, tok, p, program>>

\* evalProgram returns result after the last statement
EvalReturn ==
    /\ pc = "eval"
    /\ next > Len(program)
    /\ pc' = "evaluated"
    /\ UNCHANGED <<l, tok, p, program, evalVars>>

NextEval == ParserNew \/ ParseStep \/ ParseReturn \/ EvalStart \/ EvalStatement \/ EvalReturn

SpecEval == InitEval /\ [][NextEval]_vars

\* ------------------------------------------------------------------ the evaluator on a given ast

\* The nodes as the parser fills them, for a host that builds the Program it
\* passes to Eval: a String value has no other way into an evaluation, the
\* lexer having no case for the double quote.
IntLit(n) == IntegerLiteral(Token(INT, ToString(n)), n)
StrLit(s) == StringLiteral(Token(TOKEN_STRING, s), s)
BoolLit(b) ==
    BooleanLit(Token(IF b THEN TOKEN_TRUE ELSE TOKEN_FALSE, IF b THEN "true" ELSE "false"), b)
Ident(name) == Identifier(Token(IDENT, name), name)
Prefix(op, right) == PrefixExpression(Token(op, op), op, right)
Infix(op, left, right) == InfixExpression(Token(op, op), op, left, right)
ExprStmt(e) == ExpressionStatement(e.Token, e)
Block(stmts) == BlockStatement(Token(LBRACE, "{"), stmts)
If(cond, cons, alt) == IfExpression(Token(IF_, "if"), cond, cons, alt)
Call(function, args) == CallExpression(Token(LPAREN, "("), function, args)
Return(e) == ReturnStatement(Token(RETURN, "return"), e)

\* expressions of every type of value: Integer, Boolean, String, Null,
\* Builtin, Function, ReturnValue, and the Booleans of string comparisons
AstOperands ==
    {IntLit(1), BoolLit(TRUE), BoolLit(FALSE), StrLit("a"), StrLit("bc"),
     If(BoolLit(FALSE), Block(<<ExprStmt(IntLit(1))>>), NoBlock),
     Ident("len"),
     FunctionLiteral(Token(FUNCTION, "fn"), <<>>, Block(<<>>)),
     If(BoolLit(TRUE), Block(<<Return(IntLit(1))>>), NoBlock),
     Infix("==", StrLit("a"), StrLit("bc")),
     Infix("==", StrLit("a"), StrLit("a"))}

AstOperators == {"+", "-", "*", "/", "<", ">", "==", "!="}

AstInfixInputs ==
    {<<ExprStmt(Infix(op, left, right))>> :
        op \in AstOperators, left \in AstOperands, right \in AstOperands}

AstConditions ==
    AstOperands \cup {Prefix("!", e) : e \in AstOperands}
        \cup {IntLit(0), Infix("<", IntLit(1), IntLit(2)), Infix("<", IntLit(2), IntLit(1)),
              Infix("!=", StrLit("a"), StrLit("bc")), Infix("!=", StrLit("a"), StrLit("a")),
              Prefix("!", Prefix("!", Infix("==", StrLit("a"), StrLit("bc"))))}

AstIfInputs ==
    {<<ExprStmt(If(c, Block(<<ExprStmt(IntLit(1))>>), alt))>> :
        c \in AstConditions, alt \in {NoBlock, Block(<<ExprStmt(IntLit(2))>>)}}

MaxArguments == 2

AstArguments ==
    {IntLit(1), BoolLit(TRUE), StrLit(""), StrLit("a"), StrLit("bc"), Ident("len"),
     If(BoolLit(FALSE), Block(<<ExprStmt(IntLit(1))>>), NoBlock),
     If(BoolLit(TRUE), Block(<<>>), NoBlock), Ident("foo"),
     Infix("+", StrLit("a"), StrLit("bc"))}

AstLenInputs ==
    {<<ExprStmt(Call(Ident("len"), args))>> : args \in SeqsUpTo(AstArguments, MaxArguments)}

AstInputs == AstInfixInputs \cup AstIfInputs \cup AstLenInputs

\* the host holds a Program it built and has not called Eval
InitAst ==
    /\ l = NoLexer
    /\ tok = NoToken
    /\ p = NoParser
    /\ program \in AstInputs
    /\ pc = "parsed"
    /\ EvalIdle

NextAst == EvalStart \/ EvalStatement \/ EvalReturn

SpecAst == InitAst /\ [][NextAst]_vars

\* ------------------------------------------------------------------ the environment alone

MaxEnvs == 2

EnvNames == {"a", "b"}

\* the objects the host binds a name to
EnvValues(name) == IF name = "a" THEN {Integer(1), Integer(2)} ELSE {Integer(1)}

\* result before the host has called Get or Set
NoCall == [op |-> "none"]

InitEnv ==
    /\ l = NoLexer
    /\ tok = NoToken
    /\ p = NoParser
    /\ program = <<>>
    /\ pc = "env"
    /\ heap = <<>>
    /\ nref = FirstRefs
    /\ evals = <<>>
    /\ result = NoCall
    /\ next = 1

\* the host calls object.NewEnvironment()
EnvNewEnvironment ==
    /\ pc = "env"
    /\ Len(heap) < MaxEnvs
    /\ heap' = NewEnvironment(heap)
    /\ UNCHANGED <<l, tok, p, program, pc, nref, evals, result, next>>

\* the host calls object.NewEnclosedEnvironment(outer)
EnvNewEnclosedEnvironment(outer) ==
    /\ pc = "env"
    /\ Len(heap) < MaxEnvs
    /\ heap' = NewEnclosedEnvironment(heap, outer)
    /\ UNCHANGED <<l, tok, p, program, pc, nref, evals, result, next>>

\* the host calls e.Set(identifier, val); result records the call
EnvSet(e, identifier, val) ==
    /\ pc = "env"
    /\ heap' = Set(heap, e, identifier, val)
    /\ result' = [op |-> "Set", env |-> e, identifier |-> identifier, ret |-> val]
    /\ UNCHANGED <<l, tok, p, program, pc, nref, evals, next>>

\* the host calls e.Get(identifier); result records the call and (obj, ok)
EnvGet(e, identifier) ==
    /\ pc = "env"
    /\ \E g \in {Get(heap, e, identifier)} :
           result' = [op |-> "Get", env |-> e, identifier |-> identifier,
                      ret |-> [ok |-> g.ok, obj |-> g.obj]]
    /\ UNCHANGED <<l, tok, p, program, pc, heap, nref, evals, next>>

NextEnv ==
    \/ EnvNewEnvironment
    \/ \E outer \in DOMAIN heap : EnvNewEnclosedEnvironment(outer)
    \/ \E e \in DOMAIN heap, identifier \in EnvNames :
           \E val \in EnvValues(identifier) : EnvSet(e, identifier, val)
    \/ \E e \in DOMAIN heap, identifier \in EnvNames : EnvGet(e, identifier)

SpecEnv == InitEnv /\ [][NextEnv]_vars

\* ------------------------------------------------------------------ claims: lexer

\* C8: once NextToken has returned EOF (with the empty literal), every later
\* call on the same lexer returns EOF with the empty literal again.
EOFIsAbsorbing ==
    [][(LexNextToken /\ tok.Type = EOF) => tok' = Token(EOF, "")]_vars

\* C9: a NextToken call that returns ILLEGAL has consumed the byte: the lexer
\* stands behind the byte the token was made of.
IllegalByteIsConsumed ==
    [][(LexNextToken /\ tok'.Type = ILLEGAL)
        => l'.position = skipWhiteSpace(l).position + 1]_vars

\* the kind token.go gives each one-byte operator and delimiter
PunctuationKind ==
    [ch \in {"=", "+", "-", "!", "*", "/", "<", ">", ",", ";", "(", ")", "{", "}", "[", "]"} |->
        CASE ch = "=" -> ASSIGN [] ch = "+" -> PLUS [] ch = "-" -> MINUS
          [] ch = "!" -> BANG [] ch = "*" -> ASTERISK [] ch = "/" -> SLASH
          [] ch = "<" -> LT [] ch = ">" -> GT [] ch = "," -> COMMA
          [] ch = ";" -> SEMICOLON [] ch = "(" -> LPAREN [] ch = ")" -> RPAREN
          [] ch = "{" -> LBRACE [] ch = "}" -> RBRACE [] ch = "[" -> LBRACKET
          [] ch = "]" -> RBRACKET]

\* C18: a NextToken call that finds, after the whitespace, one of the bytes
\* = + - ! * / < > , ; ( ) { } [ ] (and not the two bytes of == or !=)
\* returns the token of the kind of that byte with the byte as its literal.
PunctuationIsLexed ==
    [][LexNextToken
        => \A lx \in {skipWhiteSpace(l)} :
               (lx.ch \in DOMAIN PunctuationKind
                    /\ ~(lx.ch \in {"=", "!"} /\ peekChar(lx) = "="))
               => tok' = Token(PunctuationKind[lx.ch], lx.ch)]_vars

\* the tokens NextToken returns on lexer lx0 up to the first EOF, n0 at most
RECURSIVE TokensFrom(_, _)
TokensFrom(lx0, n0) ==
    Bind(<<lx0, n0>>, LAMBDA a :
        IF a[2] = 0 THEN <<>>
        ELSE Bind(NextToken(a[1]), LAMBDA r :
                 IF r.tok.Type = EOF THEN <<r.tok>>
                 ELSE <<r.tok>> \o TokensFrom(r.l, a[2] - 1)))

Tokens(input) == TokensFrom(NewLexer(input), Len(input) + 2)

Whitespace == {" ", "\t", "\n", "\r"}

\* the places of input where a digit stands next to an operator or delimiter
DigitBoundaries(input) ==
    {i \in 1..(Len(input) - 1) :
        \/ isDigit(input[i]) /\ input[i + 1] \in DOMAIN PunctuationKind
        \/ input[i] \in DOMAIN PunctuationKind /\ isDigit(input[i + 1])}

\* C19: when the lexer has read its input to EOF, the input with a space, tab,
\* CR or LF put between an integer literal and the operator or delimiter next
\* to it lexes to the same tokens as the input itself.
WhitespaceInsensitive ==
    tok.Type = EOF
        => \A i \in DigitBoundaries(l.input), ws \in Whitespace :
               Tokens(SubSeq(l.input, 1, i) \o <<ws>> \o SubSeq(l.input, i + 1, Len(l.input)))
                   = Tokens(l.input)

\* C24: a NextToken call that finds, after the whitespace, a + or - with a
\* digit right behind it returns one INT token whose literal begins with
\* that sign.
LeadingSignIsPartOfNumber ==
    [][LexNextToken
        => \A lx \in {skipWhiteSpace(l)} :
               (lx.ch \in {"+", "-"} /\ isDigit(peekChar(lx)))
               => /\ tok'.Type = INT
                  /\ Len(tok'.Literal) >= 2
                  /\ SubSeq(tok'.Literal, 1, 1) = lx.ch]_vars

\* ch is the byte at position, 0 past the end, and readPosition is the next
LexerCursor ==
    pc = "lex"
        => /\ l.readPosition = l.position + 1
           /\ l.ch = IF l.position < Len(l.input) THEN l.input[l.position + 1] ELSE NUL

\* C27: after New and after every NextToken call readPosition = position + 1
\* and ch is the input byte at position, or 0 when position is not below
\* the length of the input; no NextToken call decreases position.
LexerCursorInvariant ==
    []LexerCursor /\ [][LexNextToken => l'.position >= l.position]_vars

\* C27 witness: NextToken has returned an identifier of two bytes and the
\* lexer stands on a byte of the input behind it
LexerCursorWitness ==
    /\ pc = "lex"
    /\ tok.Type = IDENT
    /\ Len(tok.Literal) = 2
    /\ l.position = 2
    /\ l.position < Len(l.input)
    /\ l.ch = l.input[3]
    /\ l.ch # NUL

\* ------------------------------------------------------------------ claims: parser

\* the words of a source text that separates them by spaces
RECURSIVE SplitWords(_, _)
SplitWords(bs0, word0) ==
    Bind(<<bs0, word0>>, LAMBDA a :
        IF a[1] = <<>> THEN <<a[2]>>
        ELSE IF Head(a[1]) = " " THEN <<a[2]>> \o SplitWords(Tail(a[1]), "")
        ELSE SplitWords(Tail(a[1]), a[2] \o Head(a[1])))

\* The reference reading of operand (operator operand)*: the root is the
\* rightmost operator of the lowest precedence, == != below < > below + -
\* below * /.
RefPrecedence(op) ==
    CASE op \in {"==", "!="} -> 1
      [] op \in {"<", ">"} -> 2
      [] op \in {"+", "-"} -> 3
      [] op \in {"*", "/"} -> 4

RECURSIVE RefString(_)
RefString(ws0) ==
    Bind(ws0, LAMBDA ws :
    IF Len(ws) = 1 THEN ws[1]
    ELSE LET opsAt == {i \in 1..Len(ws) : i % 2 = 0}
             lowest == CHOOSE i \in opsAt :
                          \A j \in opsAt :
                              \/ RefPrecedence(ws[j]) > RefPrecedence(ws[i])
                              \/ (RefPrecedence(ws[j]) = RefPrecedence(ws[i]) /\ j <= i)
         IN  "(" \o RefString(SubSeq(ws, 1, lowest - 1)) \o " " \o ws[lowest] \o " "
                 \o RefString(SubSeq(ws, lowest + 1, Len(ws))) \o ")")

\* C6: an expression of operands joined by the infix operators parses without
\* error to the AST whose String() is the left-associative precedence reading.
PrecedenceAndAssociativity ==
    (pc = "parsed" /\ l.input \in InfixInputs)
        => /\ p.errors = <<>>
           /\ ProgramString(program) = RefString(SplitWords(l.input, ""))

\* C6 witness: a - 1 * b - 2 has been parsed
PrecedenceWitness ==
    /\ pc = "parsed"
    /\ l.input = Bytes("a - 1 * b - 2")
    /\ ProgramString(program) = "((a - (1 * b)) - 2)"

\* C7: the current token of the parser eventually becomes EOF and ParseProgram
\* returns.  The condition of its loop reads the current token alone, and an
\* iteration is a function of the lexer and the two tokens: an iteration that
\* leaves these as they were is followed by the same iteration for ever.  So
\* a ParseProgram that terminates never hangs in a block and never runs an
\* iteration that leaves the lexer and the two tokens unchanged.
ParseProgramTerminates ==
    [][ParseStep =>
        /\ pc' # "hung"
        /\ <<l', p'.curToken, p'.peekToken>> # <<l, p.curToken, p.peekToken>>]_vars

\* C10: a let statement that fails an assertion appends exactly one error and
\* no statement.
FailedLetIsDropped ==
    [][(ParseStep /\ p.curToken.Type = LET_
            /\ parseLetStatement(PS).node = TypedNil("LetStatement"))
        => (Len(p'.errors) = Len(p.errors) + 1 /\ program' = program)]_vars

\* C11: the semicolon after the expression of a return statement is optional
\* as for let: when another token follows, the statement appends no error
\* beyond those of its expression; when a semicolon follows, it is consumed.
ReturnSemicolonIsOptional ==
    [][(ParseStep /\ p.curToken.Type = RETURN)
        => \A r \in {parseExpression(nextToken(PS), LOWEST)} :
               /\ p'.errors = r.ps.errors
               /\ r.ps.peekToken.Type = SEMICOLON
                      => \A ps \in {nextToken(nextToken(r.ps))} :
                             /\ l' = ps.l
                             /\ p'.curToken = ps.curToken
                             /\ p'.peekToken = ps.peekToken]_vars

\* C12: the String() of a program parsed without errors parses without
\* errors to a program with the same String().
PrintableRoundTrip ==
    (pc = "parsed" /\ p.errors = <<>>)
        => \A again \in {ParseProgram(NewParser(NewLexer(Bytes(ProgramString(program)))),
                                      <<>>)} :
               /\ again.ps.errors = <<>>
               /\ ProgramString(again.stmts) = ProgramString(program)

\* environment e and its outer chain, innermost first
RECURSIVE ChainSeq(_)
ChainSeq(e) == IF e = NilEnv THEN <<>> ELSE <<e>> \o ChainSeq(heap[e].outer)

\* the innermost environment of the chain of e that binds name, or NilEnv
Innermost(e, name) ==
    LET chain == ChainSeq(e)
        binders == {i \in DOMAIN chain : name \in DOMAIN heap[chain[i]].store}
    IN  IF binders = {} THEN NilEnv
        ELSE chain[CHOOSE i \in binders : \A j \in binders : i <= j]

\* C13: Get(name) on e returns the binding of the innermost environment of
\* the chain of e that binds name and reports absence only when none does;
\* Set(name, v) on e binds name to v in the store of e and changes nothing
\* else: not the other names of e, not its outer, not any other environment.
EnvironmentLookupAndInsertion ==
    [][/\ \A e \in DOMAIN heap, name \in EnvNames :
              EnvGet(e, name)
              => /\ result'.ret.ok = (Innermost(e, name) # NilEnv)
                 /\ Innermost(e, name) # NilEnv
                        => result'.ret.obj = heap[Innermost(e, name)].store[name]
       /\ \A e \in DOMAIN heap, name \in EnvNames :
              \A val \in EnvValues(name) :
                  EnvSet(e, name, val)
                  => /\ DOMAIN heap' = DOMAIN heap
                     /\ \A o \in DOMAIN heap : o # e => heap'[o] = heap[o]
                     /\ heap'[e].outer = heap[e].outer
                     /\ DOMAIN heap'[e].store = DOMAIN heap[e].store \cup {name}
                     /\ heap'[e].store[name] = val
                     /\ \A n \in DOMAIN heap[e].store :
                            n # name => heap'[e].store[n] = heap[e].store[n]]_vars

\* C13 witness: Get was called on an environment that binds the name to one
\* object while its outer binds it to another; it returned the inner object
EnvironmentWitness ==
    /\ pc = "env"
    /\ result.op = "Get"
    /\ heap[result.env].outer # NilEnv
    /\ result.identifier \in DOMAIN heap[result.env].store
    /\ result.identifier \in DOMAIN heap[heap[result.env].outer].store
    /\ heap[result.env].store[result.identifier]
           # heap[heap[result.env].outer].store[result.identifier]
    /\ result.ret.ok
    /\ result.ret.obj = heap[result.env].store[result.identifier]

\* the fields of a node that hold its children, in the order of the struct
ChildNodes(node) ==
    CASE node.kind = "ExpressionStatement" -> <<node.Expression>>
      [] node.kind = "LetStatement" -> <<node.Name, node.Value>>
      [] node.kind = "ReturnStatement" -> <<node.ReturnValue>>
      [] node.kind = "PrefixExpression" -> <<node.Right>>
      [] node.kind = "InfixExpression" -> <<node.Left, node.Right>>
      [] node.kind = "IfExpression" ->
            <<node.Condition, node.Consequence>>
                \o (IF node.Alternative = NoBlock THEN <<>> ELSE <<node.Alternative>>)
      [] node.kind = "BlockStatement" -> node.Statements
      [] node.kind = "FunctionLiteral" -> node.Parameters \o <<node.Body>>
      [] node.kind = "CallExpression" -> <<node.Function>> \o node.Arguments
      [] node.kind = "ArrayLiteral" -> node.Elements
      [] node.kind = "IndexExpression" -> <<node.Left, node.Index>>
      [] OTHER -> <<>>

\* node and every node below it
RECURSIVE NodesOf(_)
NodesOf(node) ==
    {node} \cup UNION {NodesOf(ChildNodes(node)[i]) : i \in DOMAIN ChildNodes(node)}

\* every node of the Program
ProgramNodes == UNION {NodesOf(program[i]) : i \in DOMAIN program}

\* C25: in a Program returned with an empty error list every parameter of
\* every function literal was built from a token of kind IDENT.
ParametersAreIdentifiers ==
    (pc = "parsed" /\ p.errors = <<>>)
        => \A node \in ProgramNodes :
               node.kind = "FunctionLiteral"
               => \A i \in DOMAIN node.Parameters : node.Parameters[i].Token.Type = IDENT

\* C28: a Program returned with an empty error list is complete: no
\* statement and no child of any node of it is absent (a nil interface or a
\* nil pointer); the alternative of an if is the one child that may be absent.
EmptyErrorsMeanCompleteAst ==
    (pc = "parsed" /\ p.errors = <<>>)
        => \A node \in ProgramNodes : node.kind \notin {"nil", "nilptr"}

\* C28 witness: a Program with a function literal whose body is a let
\* statement and an expression statement was returned with no errors
CompleteAstWitness ==
    /\ pc = "parsed"
    /\ p.errors = <<>>
    /\ \E node \in ProgramNodes :
           /\ node.kind = "FunctionLiteral"
           /\ Len(node.Parameters) = 1
           /\ Len(node.Body.Statements) = 2
           /\ node.Body.Statements[1].kind = "LetStatement"
           /\ node.Body.Statements[1].Value.kind = "IntegerLiteral"
           /\ node.Body.Statements[2].kind = "ExpressionStatement"

\* ------------------------------------------------------------------ claims: evaluator

\* the calls of Eval made directly by call i of Eval
Children(i) == {j \in DOMAIN evals : evals[j].parent = i}

\* C1: Eval never aborts: a program parsed without errors is evaluated to the
\* end without a runtime failure, whatever it divides by, however few
\* arguments it passes and whatever a block produced.
EvalNeverAborts == pc # "aborted"

\* C2: when a call of Eval made for a prefix or infix expression, an if, a
\* let, a return or a call gets an Error from one of the calls of Eval it
\* makes (its operands; the same holds for its block or the body called), it
\* returns that same Error and makes no further call of Eval.
ErrorPropagation ==
    \A i \in DOMAIN evals :
        evals[i].node.kind \in {"PrefixExpression", "InfixExpression", "IfExpression",
                                "LetStatement", "ReturnStatement", "CallExpression"}
        => \A j \in Children(i) :
               evals[j].result.type = ERROR_OBJ
               => /\ evals[i].result = evals[j].result
                  /\ \A k \in Children(i) : k <= j

\* C2 witness: a call with three arguments whose second argument gave the
\* Error the call returned; the third argument was not evaluated
ErrorPropagationWitness ==
    /\ pc = "evaluated"
    /\ \E i \in DOMAIN evals :
           /\ evals[i].node.kind = "CallExpression"
           /\ Len(evals[i].node.Arguments) = 3
           /\ Cardinality(Children(i)) = 3
           /\ \E j \in Children(i) :
                  /\ evals[j].result.type = ERROR_OBJ
                  /\ evals[j].result.Message = "identifier not found: foo"
                  /\ evals[i].result = evals[j].result
                  /\ result = evals[j].result

\* C3: neither the value Eval returns for the Program nor the value a call
\* expression gets from applying a function is a ReturnValue.
ReturnValueIsUnwrapped ==
    /\ pc = "evaluated" => result.type # RETURN_VALUE_OBJ
    /\ \A i \in DOMAIN evals :
           evals[i].node.kind = "CallExpression" => evals[i].result.type # RETURN_VALUE_OBJ

\* call j of Eval evaluates the body of a function applied by its parent
IsBody(j) ==
    /\ evals[j].parent # 0
    /\ evals[j].node.kind = "BlockStatement"
    /\ evals[evals[j].parent].node.kind = "CallExpression"

\* the function applied: what the first Eval of the call expression returned
Callee(j) == evals[evals[j].parent + 1].result

\* the environments in which the function literal that made fn was evaluated
DefEnvs(fn) ==
    {evals[c].env : c \in {d \in DOMAIN evals :
                              /\ evals[d].node.kind = "FunctionLiteral"
                              /\ evals[d].result.type = FUNCTION_OBJ
                              /\ evals[d].result.ref = fn.ref}}

\* environment e and its outer chain
RECURSIVE ChainSet(_)
ChainSet(e) == IF e = NilEnv THEN {} ELSE {e} \cup ChainSet(heap[e].outer)

ParamNames(fn) == {fn.Parameters[i].Value : i \in DOMAIN fn.Parameters}

\* the names let statements evaluated in environment e have bound
LetNames(e) ==
    {evals[k].node.Name.Value :
        k \in {d \in DOMAIN evals : evals[d].node.kind = "LetStatement" /\ evals[d].env = e}}

\* C4: the body of a function made by a literal evaluated in environment E
\* is evaluated, whoever calls it, in a fresh environment whose outer is E;
\* an identifier evaluated there is found in the fresh environment only as a
\* parameter (or a name the body itself has let-bound) and otherwise in E or
\* its chain.
ClosureCapture ==
    \A j \in DOMAIN evals :
        IsBody(j) =>
            \A E \in DefEnvs(Callee(j)) :
                /\ evals[j].env # evals[evals[j].parent].env
                /\ heap[evals[j].env].outer = E
                /\ \A k \in DOMAIN evals :
                       (/\ evals[k].node.kind = "Identifier"
                        /\ evals[k].env = evals[j].env
                        /\ evals[k].at # NilEnv)
                       => \/ /\ evals[k].at = evals[j].env
                             /\ evals[k].node.Value
                                    \in ParamNames(Callee(j)) \cup LetNames(evals[j].env)
                          \/ evals[k].at \in ChainSet(E)

\* C4 witness: a closure made during a call that has returned is called from
\* an environment outside its chain that binds a name of its body; the name
\* was found in the environment of the call that made the closure, and the
\* two closures of the two calls gave 1 - 2
ClosureCaptureWitness ==
    /\ pc = "evaluated"
    /\ result = Integer(0 - 1)
    /\ \E j \in DOMAIN evals :
           /\ IsBody(j)
           /\ \E E \in DefEnvs(Callee(j)) :
                  /\ E # 1
                  /\ evals[evals[j].parent].env \notin ChainSet(evals[j].env)
                  /\ \E k \in DOMAIN evals :
                         /\ evals[k].node.kind = "Identifier"
                         /\ evals[k].env = evals[j].env
                         /\ evals[k].node.Value
                                \in DOMAIN heap[evals[evals[j].parent].env].store
                         /\ evals[k].at = E

\* call m of Eval evaluates a statement of a block or of the program
IsStatement(m) ==
    \/ evals[m].parent = 0
    \/ evals[evals[m].parent].node.kind = "BlockStatement"

\* the blocks around call j of Eval up to the body of the function called,
\* or up to the program (0)
RECURSIVE EnclosingBlocks(_)
EnclosingBlocks(j) ==
    IF evals[j].parent = 0 THEN {0}
    ELSE IF evals[evals[j].parent].node.kind = "BlockStatement"
         THEN {evals[j].parent}
                  \cup (IF IsBody(evals[j].parent) THEN {}
                        ELSE EnclosingBlocks(evals[j].parent))
         ELSE EnclosingBlocks(evals[j].parent)

\* C5: once a statement of a block or of the program has evaluated to a
\* ReturnValue or an Error, no later statement of that block or of a block
\* around it, up to the function body or the program, is evaluated.
ReturnAndErrorHalt ==
    \A m \in DOMAIN evals :
        (IsStatement(m) /\ evals[m].result.type \in {RETURN_VALUE_OBJ, ERROR_OBJ})
        => \A s \in DOMAIN evals :
               (s > m /\ IsStatement(s)) => evals[s].parent \notin EnclosingBlocks(m)

\* the calls of Eval that call i made, in the order it made them
Kids(i) ==
    LET RECURSIVE Sorted(_)
        Sorted(js) == IF js = {} THEN <<>>
                      ELSE LET j == CHOOSE k \in js : \A m \in js : k <= m
                           IN  <<j>> \o Sorted(js \ {j})
    IN  Sorted(Children(i))

\* a value whose payload makes it false: Boolean false or Null
IsFalseValue(v) == v.type = NULL_OBJ \/ (v.type = BOOLEAN_OBJ /\ ~v.Value)

\* C14: an if expression whose condition evaluated to a value other than an
\* Error takes the alternative, or is NULL when it has none, exactly when the
\* value is Boolean false or Null, whichever expression produced it, and
\* takes the consequence for every other value.
TruthinessOfIf ==
    \A i \in DOMAIN evals :
        (evals[i].node.kind = "IfExpression" /\ evals[i].result # Pending)
        => \A kids \in {Kids(i)} :
               evals[kids[1]].result.type # ERROR_OBJ
               => IF IsFalseValue(evals[kids[1]].result)
                  THEN IF evals[i].node.Alternative = NoBlock
                       THEN Len(kids) = 1 /\ evals[i].result = NULL
                       ELSE /\ Len(kids) = 2
                            /\ evals[kids[2]].node = evals[i].node.Alternative
                            /\ evals[i].result = evals[kids[2]].result
                  ELSE /\ Len(kids) = 2
                       /\ evals[kids[2]].node = evals[i].node.Consequence
                       /\ evals[i].result = evals[kids[2]].result

\* C15: every Boolean an evaluation returned is the shared TRUE or the shared
\* FALSE, and ! of a Boolean whose payload is false returned TRUE.
CanonicalBooleans ==
    \A i \in DOMAIN evals :
        /\ evals[i].result.type = BOOLEAN_OBJ
               => SamePointer(evals[i].result, TRUE_) \/ SamePointer(evals[i].result, FALSE_)
        /\ (/\ evals[i].node.kind = "PrefixExpression"
            /\ evals[i].node.Operator = "!"
            /\ evals[i].result # Pending)
               => \A kids \in {Kids(i)} :
                      (/\ evals[kids[1]].result.type = BOOLEAN_OBJ
                       /\ ~evals[kids[1]].result.Value)
                      => evals[i].result = TRUE_

\* the (left, operator, right) of the words of an Error message of an infix
InfixMessage(what, left, operator, right) ==
    what \o ": " \o left.type \o " " \o operator \o " " \o right.type

LetsOf(e, n, records) ==
    {k \in DOMAIN records :
        /\ records[k].node.kind = "LetStatement"
        /\ records[k].env = e
        /\ records[k].node.Name.Value = n
        /\ records[k].result = NilObject}

\* the bodies evaluated in environment e
BodiesIn(e) == {j \in DOMAIN evals : IsBody(j) /\ evals[j].env = e}

\* the argument the call around body j passed for the parameter named n
ArgumentFor(j, n) ==
    LET fn == Callee(j)
        idx == CHOOSE i \in DOMAIN fn.Parameters :
                   /\ fn.Parameters[i].Value = n
                   /\ \A m \in DOMAIN fn.Parameters : fn.Parameters[m].Value = n => m <= i
    IN  evals[Kids(evals[j].parent)[1 + idx]].result

\* every call has its own new child of the captured environment, and every
\* binding of every environment was made by a let statement evaluated in that
\* environment or, in the environment of a call, is a parameter of the call
\* (the environment of a call that aborted while binding its parameters has
\* no body evaluated in it)
FreshEnvironmentPerCall ==
    /\ \A j \in DOMAIN evals :
           IsBody(j)
           => /\ heap[evals[j].env].outer = Callee(j).Env
              /\ evals[j].env # Callee(j).Env
              /\ evals[j].env # evals[evals[j].parent].env
              /\ BodiesIn(evals[j].env) = {j}
    /\ \A e \in {1} \cup {evals[j].env : j \in {i \in DOMAIN evals : IsBody(i)}} :
           \A n \in (IF e \in DOMAIN heap THEN DOMAIN heap[e].store ELSE {}) :
               IF LetsOf(e, n, evals) # {}
               THEN \A k \in LetsOf(e, n, evals) :
                        (\A m \in LetsOf(e, n, evals) : m <= k)
                        => heap[e].store[n] = evals[Kids(k)[1]].result
               ELSE \E j \in BodiesIn(e) :
                        /\ n \in ParamNames(Callee(j))
                        /\ heap[e].store[n] = ArgumentFor(j, n)

\* a statement changes, in the environments that were there before it, only
\* the names that let statements evaluated in that environment have bound
StatementFrame ==
    EvalStatement
    => \A e \in DOMAIN heap :
           /\ heap'[e].outer = heap[e].outer
           /\ DOMAIN heap[e].store \subseteq DOMAIN heap'[e].store
           /\ \A n \in DOMAIN heap'[e].store :
                  (n \notin DOMAIN heap[e].store \/ heap'[e].store[n] # heap[e].store[n])
                  => \E k \in DOMAIN evals' \ DOMAIN evals :
                         /\ evals'[k].node.kind = "LetStatement"
                         /\ evals'[k].env = e
                         /\ evals'[k].node.Name.Value = n

\* C20: each call evaluates the body in a new child of the captured
\* environment of the function; binding the parameters and executing the let
\* statements of the body change only that child, so the environment of the
\* caller and the captured environment hold after the call what they held
\* before it, and a later call of the same function starts from a new child.
CallIsScoped == []FreshEnvironmentPerCall /\ [][StatementFrame]_vars

\* C20 witness: f was called twice from an environment that binds x to 1;
\* each call let-bound x in its own environment to its own argument, and the
\* environment of the caller still binds x to 1
CallIsScopedWitness ==
    /\ pc = "evaluated"
    /\ result = Integer(4)
    /\ "x" \in DOMAIN heap[1].store
    /\ heap[1].store["x"] = Integer(1)
    /\ \E j, k \in DOMAIN evals :
           /\ j < k
           /\ IsBody(j) /\ IsBody(k)
           /\ Callee(j).ref = Callee(k).ref
           /\ evals[evals[j].parent].env = 1 /\ evals[evals[k].parent].env = 1
           /\ evals[j].env # evals[k].env
           /\ "x" \in DOMAIN heap[evals[j].env].store
           /\ "x" \in DOMAIN heap[evals[k].env].store
           /\ heap[evals[j].env].store["x"] = Integer(2)
           /\ heap[evals[k].env].store["x"] = Integer(3)

\* the calls of a Function whose callee and arguments have all been
\* evaluated to values, in an evaluation not cut off by the depth of the stack
AppliedCalls ==
    {i \in DOMAIN evals :
        /\ evals[i].node.kind = "CallExpression"
        /\ ~(pc = "aborted" /\ result = Panic("stack overflow"))
        /\ \A kids \in {Kids(i)} :
               /\ Len(kids) >= 1 + Len(evals[i].node.Arguments)
               /\ evals[kids[1]].result.type = FUNCTION_OBJ
               /\ \A a \in 1..Len(evals[i].node.Arguments) :
                      evals[kids[1 + a]].result.type \notin {"pending", ERROR_OBJ}}

\* C21: applying a function of n parameters to m arguments evaluates the
\* body for every m, with fewer arguments than parameters too; every
\* parameter that has an argument at its index is bound to it in the
\* environment of the call (unless the body let-bound the name again), and
\* the arguments past the n-th bind nothing.
NoArityChecking ==
    \A i \in AppliedCalls :
        \A kids \in {Kids(i)} :
            /\ Len(kids) = 2 + Len(evals[i].node.Arguments)
            /\ IsBody(kids[Len(kids)])
            /\ \A e \in {evals[kids[Len(kids)]].env} :
                   /\ \A a \in 1..Len(evals[kids[1]].result.Parameters) :
                          \A n \in {evals[kids[1]].result.Parameters[a].Value} :
                              (/\ a <= Len(evals[i].node.Arguments)
                               /\ LetsOf(e, n, evals) = {}
                               /\ \A b \in (a + 1)..Len(evals[kids[1]].result.Parameters) :
                                      evals[kids[1]].result.Parameters[b].Value # n)
                              => /\ n \in DOMAIN heap[e].store
                                 /\ heap[e].store[n] = evals[kids[1 + a]].result
                   /\ \A n \in DOMAIN heap[e].store :
                          \/ n \in ParamNames(evals[kids[1]].result)
                          \/ LetsOf(e, n, evals) # {}

\* the calls of Eval that call k is running in
RECURSIVE Ancestors(_)
Ancestors(k) ==
    IF evals[k].parent = 0 THEN {} ELSE {evals[k].parent} \cup Ancestors(evals[k].parent)

\* the let statements that had bound n in e when call k of Eval began
LetsBefore(e, n, k) == {m \in LetsOf(e, n, evals) : m < k /\ m \notin Ancestors(k)}

\* e bound n when call k of Eval began: by a let or as a parameter of its call
BoundBefore(e, n, k) ==
    \/ LetsBefore(e, n, k) # {}
    \/ \E j \in BodiesIn(e) : n \in ParamNames(Callee(j))

\* what e bound n to when call k of Eval began
ValueBefore(e, n, k) ==
    IF LetsBefore(e, n, k) # {}
    THEN evals[Kids(CHOOSE m \in LetsBefore(e, n, k) :
                       \A o \in LetsBefore(e, n, k) : o <= m)[1]].result
    ELSE ArgumentFor(CHOOSE j \in BodiesIn(e) : TRUE, n)

\* C22: an identifier is found in the innermost environment of its chain that
\* a let statement evaluated before it (or a parameter) had bound the name
\* in, with the value of the last such let, whether the closure it is
\* evaluated in was made before or after that let; it is not found in the
\* chain when no let before it bound the name.
LetIsVisibleAfterwards ==
    \A k \in DOMAIN evals :
        (evals[k].node.kind = "Identifier" /\ evals[k].result # Pending)
        => \A chain \in {ChainSeq(evals[k].env)} :
           \A binders \in {{i \in DOMAIN chain :
                               BoundBefore(chain[i], evals[k].node.Value, k)}} :
               IF binders = {}
               THEN evals[k].at = NilEnv /\ evals[k].result.type \in {BUILTIN_OBJ, ERROR_OBJ}
               ELSE \A i \in binders :
                        (\A o \in binders : i <= o)
                        => /\ evals[k].at = chain[i]
                           /\ evals[k].result = ValueBefore(chain[i], evals[k].node.Value, k)

\* C22 witness: a function called itself by the name a let bound it to after
\* the function was made, and the program was evaluated to the end
LetIsVisibleAfterwardsWitness ==
    /\ pc = "evaluated"
    /\ \E j, k \in DOMAIN evals :
           /\ IsBody(j)
           /\ j \in Ancestors(k)
           /\ evals[k].node.kind = "Identifier"
           /\ evals[k].result.type = FUNCTION_OBJ
           /\ evals[k].result.ref = Callee(j).ref
           /\ evals[k].at = Callee(j).Env
           /\ \E d \in DOMAIN evals :
                  /\ evals[d].node.kind = "FunctionLiteral"
                  /\ evals[d].result = evals[k].result
                  /\ evals[d].parent # 0
                  /\ evals[evals[d].parent].node.kind = "LetStatement"
                  /\ evals[evals[d].parent].node.Name.Value = evals[k].node.Value

\* C23: an identifier that an environment of the chain binds evaluates to
\* that binding, a name of the built-in table included; only when no
\* environment of the chain binds it does it evaluate to the built-in of
\* that name, and to Error("identifier not found: <name>") when there is
\* no such built-in.
IdentifierResolutionOrder ==
    \A k \in DOMAIN evals :
        (evals[k].node.kind = "Identifier" /\ evals[k].result # Pending)
        => \A n \in {evals[k].node.Value} :
               IF \E e \in ChainSet(evals[k].env) : BoundBefore(e, n, k)
               THEN /\ evals[k].at \in ChainSet(evals[k].env)
                    /\ evals[k].result = ValueBefore(evals[k].at, n, k)
               ELSE /\ evals[k].at = NilEnv
                    /\ evals[k].result =
                           IF n = "len" THEN Builtin("len")
                           ELSE Error("identifier not found: " \o n)

\* C23 witness: the program that binds len to a function of its own has
\* called that function, not the built-in
IdentifierResolutionWitness ==
    /\ pc = "evaluated"
    /\ result = Integer(7)
    /\ \E k \in DOMAIN evals :
           /\ evals[k].node.kind = "Identifier"
           /\ evals[k].node.Value = "len"
           /\ evals[k].at = 1
           /\ evals[k].result.type = FUNCTION_OBJ

\* the environment n outer steps from e, or NilEnv when the chain ends before
RECURSIVE OuterAfter(_, _)
OuterAfter(e, n) ==
    IF n = 0 \/ e = NilEnv THEN e ELSE OuterAfter(heap[e].outer, n - 1)

\* C26: the outer chain of every environment ends: from every environment
\* nil is reached in at most as many outer steps as there are environments,
\* so no chain comes back to an environment of its own, whatever lets and
\* calls have been evaluated and whatever closures the stores hold.
OuterChainIsAcyclic ==
    \A e \in DOMAIN heap : OuterAfter(e, Len(heap)) = NilEnv

\* C26 witness: an environment holds a closure over itself, the closure has
\* been called, and the environment of the call has that environment as outer
OuterChainWitness ==
    /\ pc = "evaluated"
    /\ \E e \in DOMAIN heap, c \in DOMAIN heap :
           /\ heap[c].outer = e
           /\ \E n \in DOMAIN heap[e].store :
                  /\ heap[e].store[n].type = FUNCTION_OBJ
                  /\ heap[e].store[n].Env = e
                  /\ \E j \in BodiesIn(c) : Callee(j) = heap[e].store[n]

\* C29: no environment binds a name to a ReturnValue, and no prefix or infix
\* operator and no call has been given a ReturnValue as operand, callee or
\* argument.
ReturnValueNeverEscapes ==
    /\ \A e \in DOMAIN heap :
           \A n \in DOMAIN heap[e].store : heap[e].store[n].type # RETURN_VALUE_OBJ
    /\ \A i \in DOMAIN evals :
           evals[i].node.kind \in {"PrefixExpression", "InfixExpression", "CallExpression"}
           => \A k \in Children(i) :
                  ~IsBody(k) => evals[k].result.type # RETURN_VALUE_OBJ

\* C30: Eval has returned a value and not nil for the Program, for every
\* statement and for every block it has evaluated.
EvalYieldsDefinedValue ==
    /\ pc = "evaluated" => result # NilObject
    /\ \A i \in DOMAIN evals :
           (IsStatement(i) \/ evals[i].node.kind = "BlockStatement")
           => evals[i].result # NilObject

====
